---- MODULE Spec2Model ----
(***************************************************************************)
(* Live transcription session coordinator of the AI voice keyboard         *)
(* (src/lib/transcription/live-manager.ts, the Whisper based version at    *)
(* lines 420-1048) as a state machine.                                     *)
(*                                                                         *)
(* One step of the model is one run-to-completion slice of the Node.js     *)
(* event loop: the code of a handler between two awaits that really        *)
(* suspend (a database round trip, the transcription backend, a timer).    *)
(* Text is a sequence of one-character strings, so that trimming, spacing  *)
(* and the hallucination detector are computed as the code computes them.  *)
(***************************************************************************)
EXTENDS Integers, Sequences, FiniteSets, TLC

(***************************************************************************)
(* Bounds of the model.                                                    *)
(***************************************************************************)
MaxIngest == 3
MaxFinalize == 2
MaxCancel == 1
MaxFaults == 1
MaxForeign == 1
TickMs == 1000
MaxBurst == 12
MaxEntries == 3
MaxRun == 6
MaxEdits == 1
MaxBlocks == 2
MaxRecordings == 2
MaxClicks == 3
MaxMounts == 2

(***************************************************************************)
(* Program constants.                                                      *)
(***************************************************************************)
TRANSCRIPTION_INTERVAL_MS == 1000
MIN_AUDIO_DURATION_SECONDS == 1
BYTES_PER_SECOND == 32000
MANY_CHUNKS == 10
RESUME_CHUNKS == 5
maxRetries == 2
MIN_TEXT_LENGTH == 20
MIN_PHRASE_LENGTH == 5
PHRASE_REPEATS == 3
MIN_WORD_LENGTH == 2
WORD_REPEATS == 5
MAX_PROMPT_LENGTH == 224
\* The samples the worklet collects before it posts a chunk.
bufferSize == 4096
\* The literals of the context prompt of a flush (lines 791-799).
HALLUCINATION_CHECK_CHARS == 500
RECENT_CONTEXT_CHARS == 180
MIN_SPACE_FOR_DICT == 30

STATUS_COMPLETED == "COMPLETED"
STATUS_STREAMING == "STREAMING"
STATUS_FAILED == "FAILED"
STATUS_CANCELLED == "CANCELLED"

\* The content finalizeTranscription stores when the session is not in memory.
LOST_AUDIO_MESSAGE ==
  <<"E","R","R","O","R",":"," ","A","u","d","i","o"," ","d","a","t","a"," ","w","a","s"," ","l","o","s","t"," ","b","e","f","o","r","e"," ","t","r","a","n","s","c","r","i","p","t","i","o","n"," ","c","o","u","l","d"," ","b","e"," ","c","o","m","p","l","e","t","e","d","."," ","T","h","i","s"," ","m","a","y"," ","h","a","p","p","e","n"," ","i","f"," ","t","h","e"," ","s","e","r","v","e","r"," ","r","e","s","t","a","r","t","e","d"," ","o","r"," ","t","h","e"," ","s","e","s","s","i","o","n"," ","e","x","p","i","r","e","d",".">>

(***************************************************************************)
(* Text helpers: JavaScript string operations on character sequences.      *)
(***************************************************************************)
\* The white space of \s and of trim() that a string of a module can hold:
\* space, tab, line feed, carriage return, form feed, and, written as the
\* characters themselves, U+000B, U+00A0, U+1680 and U+FEFF.  (The parser
\* takes no character above U+00FF whose low byte is below 0x80 in a string:
\* U+2000-200A, U+2028, U+2029, U+202F, U+205F and U+3000 cannot occur in a
\* text of the model.)
IsSpace(c) == c \in {" ", "\t", "\n", "\r", "\f", "", " ", " ", "﻿"}

\* The characters that String.prototype.toLowerCase changes, as far as a
\* string of a module can hold them.
UpperCase ==
  <<"A", "B", "C", "D", "E", "F", "G", "H", "I", "J", "K", "L", "M", "N", "O", "P",
    "Q", "R", "S", "T", "U", "V", "W", "X", "Y", "Z", "À", "Á", "Â", "Ã", "Ä", "Å",
    "Æ", "Ç", "È", "É", "Ê", "Ë", "Ì", "Í", "Î", "Ï", "Ð", "Ñ", "Ò", "Ó", "Ô", "Õ",
    "Ö", "Ø", "Ù", "Ú", "Û", "Ü", "Ý", "Þ", "Ɓ", "Ƃ", "Ƅ", "Ɔ", "Ƈ", "Ɖ", "Ɗ", "Ƌ",
    "Ǝ", "Ə", "Ɛ", "Ƒ", "Ɠ", "Ɣ", "Ɩ", "Ɨ", "Ƙ", "Ɯ", "Ɲ", "Ɵ", "Ơ", "Ƣ", "Ƥ", "Ʀ",
    "Ƨ", "Ʃ", "Ƭ", "Ʈ", "Ư", "Ʊ", "Ʋ", "Ƴ", "Ƶ", "Ʒ", "Ƹ", "Ƽ", "Ǆ", "ǅ", "Ǉ", "ǈ",
    "Ǌ", "ǋ", "Ǎ", "Ǐ", "Ǒ", "Ǔ", "Ǖ", "Ǘ", "Ǚ", "Ǜ", "Ǟ", "Ǡ", "Ǣ", "Ǥ", "Ǧ", "Ǩ",
    "Ǫ", "Ǭ", "Ǯ", "Ǳ", "ǲ", "Ǵ", "Ƕ", "Ƿ", "Ǹ", "Ǻ", "Ǽ", "Ǿ", "Ά", "Έ", "Ή", "Ί",
    "Ό", "Ύ", "Ώ", "Α", "Β", "Γ", "Δ", "Ε", "Ζ", "Η", "Θ", "Ι", "Κ", "Λ", "Μ", "Ν",
    "Ξ", "Ο", "Π", "Ρ", "Σ", "Τ", "Υ", "Φ", "Χ", "Ψ", "Ω", "Ϊ", "Ϋ", "Ϗ", "Ϙ", "Ϛ",
    "Ϝ", "Ϟ", "Ϡ", "Ϣ", "Ϥ", "Ϧ", "Ϩ", "Ϫ", "Ϭ", "Ϯ", "ϴ", "Ϸ", "Ϲ", "Ϻ", "Ͻ", "Ͼ",
    "Ͽ", "Ҁ", "Ҋ", "Ҍ", "Ҏ", "Ґ", "Ғ", "Ҕ", "Җ", "Ҙ", "Қ", "Ҝ", "Ҟ", "Ҡ", "Ң", "Ҥ",
    "Ҧ", "Ҩ", "Ҫ", "Ҭ", "Ү", "Ұ", "Ҳ", "Ҵ", "Ҷ", "Ҹ", "Һ", "Ҽ", "Ҿ", "Ӏ", "Ӂ", "Ӄ",
    "Ӆ", "Ӈ", "Ӊ", "Ӌ", "Ӎ", "Ӑ", "Ӓ", "Ӕ", "Ӗ", "Ә", "Ӛ", "Ӝ", "Ӟ", "Ӡ", "Ӣ", "Ӥ",
    "Ӧ", "Ө", "Ӫ", "Ӭ", "Ӯ", "Ӱ", "Ӳ", "Ӵ", "Ӷ", "Ӹ", "Ӻ", "Ӽ", "Ӿ", "Ⴀ", "Ⴁ", "Ⴂ",
    "Ⴃ", "Ⴄ", "Ⴅ", "Ⴆ", "Ⴇ", "Ⴈ", "Ⴉ", "Ⴊ", "Ⴋ", "Ⴌ", "Ⴍ", "Ⴎ", "Ⴏ", "Ⴐ", "Ⴑ", "Ⴒ",
    "Ⴓ", "Ⴔ", "Ⴕ", "Ⴖ", "Ⴗ", "Ⴘ", "Ⴙ", "Ⴚ", "Ⴛ", "Ⴜ", "Ⴝ", "Ⴞ", "Ⴟ", "Ⴠ", "Ⴡ", "Ⴢ",
    "Ⴣ", "Ⴤ", "Ⴥ", "Ⴧ", "Ⴭ", "Ꭰ", "Ꭱ", "Ꭲ", "Ꭳ", "Ꭴ", "Ꭵ", "Ꭶ", "Ꭷ", "Ꭸ", "Ꭹ", "Ꭺ",
    "Ꭻ", "Ꭼ", "Ꭽ", "Ꭾ", "Ꭿ", "Ꮀ", "Ꮁ", "Ꮂ", "Ꮃ", "Ꮄ", "Ꮅ", "Ꮆ", "Ꮇ", "Ꮈ", "Ꮉ", "Ꮊ",
    "Ꮋ", "Ꮌ", "Ꮍ", "Ꮎ", "Ꮏ", "Ꮐ", "Ꮑ", "Ꮒ", "Ꮓ", "Ꮔ", "Ꮕ", "Ꮖ", "Ꮗ", "Ꮘ", "Ꮙ", "Ꮚ",
    "Ꮛ", "Ꮜ", "Ꮝ", "Ꮞ", "Ꮟ", "Ꮠ", "Ꮡ", "Ꮢ", "Ꮣ", "Ꮤ", "Ꮥ", "Ꮦ", "Ꮧ", "Ꮨ", "Ꮩ", "Ꮪ",
    "Ꮫ", "Ꮬ", "Ꮭ", "Ꮮ", "Ꮯ", "Ꮰ", "Ꮱ", "Ꮲ", "Ꮳ", "Ꮴ", "Ꮵ", "Ꮶ", "Ꮷ", "Ꮸ", "Ꮹ", "Ꮺ",
    "Ꮻ", "Ꮼ", "Ꮽ", "Ꮾ", "Ꮿ", "Ᏸ", "Ᏹ", "Ᏺ", "Ᏻ", "Ᏼ", "Ᏽ", "Ᲊ", "Ა", "Ბ", "Გ", "Დ",
    "Ე", "Ვ", "Ზ", "Თ", "Ი", "Კ", "Ლ", "Მ", "Ნ", "Ო", "Პ", "Ჟ", "Რ", "Ს", "Ტ", "Უ",
    "Ფ", "Ქ", "Ღ", "Ყ", "Შ", "Ჩ", "Ც", "Ძ", "Წ", "Ჭ", "Ხ", "Ჯ", "Ჰ", "Ჱ", "Ჲ", "Ჳ",
    "Ჴ", "Ჵ", "Ჶ", "Ჷ", "Ჸ", "Ჹ", "Ჺ", "Ჽ", "Ჾ", "Ჿ", "Ẁ", "Ẃ", "Ẅ", "Ẇ", "Ẉ", "Ẋ",
    "Ẍ", "Ẏ", "Ẑ", "Ẓ", "Ẕ", "ẞ", "Ạ", "Ả", "Ấ", "Ầ", "Ẩ", "Ẫ", "Ậ", "Ắ", "Ằ", "Ẳ",
    "Ẵ", "Ặ", "Ẹ", "Ẻ", "Ẽ", "Ế", "Ề", "Ể", "Ễ", "Ệ", "Ỉ", "Ị", "Ọ", "Ỏ", "Ố", "Ồ",
    "Ổ", "Ỗ", "Ộ", "Ớ", "Ờ", "Ở", "Ỡ", "Ợ", "Ụ", "Ủ", "Ứ", "Ừ", "Ử", "Ữ", "Ự", "Ỳ",
    "Ỵ", "Ỷ", "Ỹ", "Ỻ", "Ỽ", "Ỿ", "ᾈ", "ᾉ", "ᾊ", "ᾋ", "ᾌ", "ᾍ", "ᾎ", "ᾏ", "ᾘ", "ᾙ",
    "ᾚ", "ᾛ", "ᾜ", "ᾝ", "ᾞ", "ᾟ", "ᾨ", "ᾩ", "ᾪ", "ᾫ", "ᾬ", "ᾭ", "ᾮ", "ᾯ", "Ᾰ", "Ᾱ",
    "Ὰ", "Ά", "ᾼ", "Ὲ", "Έ", "Ὴ", "Ή", "ῌ", "Ῐ", "Ῑ", "Ὶ", "Ί", "Ῠ", "Ῡ", "Ὺ", "Ύ",
    "Ῥ", "Ὸ", "Ό", "Ὼ", "Ώ", "ῼ", "Ↄ", "Ⓐ", "Ⓑ", "Ⓒ", "Ⓓ", "Ⓔ", "Ⓕ", "Ⓖ", "Ⓗ", "Ⓘ",
    "Ⓙ", "Ⓚ", "Ⓛ", "Ⓜ", "Ⓝ", "Ⓞ", "Ⓟ", "Ⓠ", "Ⓡ", "Ⓢ", "Ⓣ", "Ⓤ", "Ⓥ", "Ⓦ", "Ⓧ", "Ⓨ",
    "Ⓩ", "Ⲁ", "Ⲃ", "Ⲅ", "Ⲇ", "Ⲉ", "Ⲋ", "Ⲍ", "Ⲏ", "Ⲑ", "Ⲓ", "Ⲕ", "Ⲗ", "Ⲙ", "Ⲛ", "Ⲝ",
    "Ⲟ", "Ⲡ", "Ⲣ", "Ⲥ", "Ⲧ", "Ⲩ", "Ⲫ", "Ⲭ", "Ⲯ", "Ⲱ", "Ⲳ", "Ⲵ", "Ⲷ", "Ⲹ", "Ⲻ", "Ⲽ",
    "Ⲿ", "Ⳁ", "Ⳃ", "Ⳅ", "Ⳇ", "Ⳉ", "Ⳋ", "Ⳍ", "Ⳏ", "Ⳑ", "Ⳓ", "Ⳕ", "Ⳗ", "Ⳙ", "Ⳛ", "Ⳝ",
    "Ⳟ", "Ⳡ", "Ⳣ", "Ⳬ", "Ⳮ", "Ⳳ", "Ꚁ", "Ꚃ", "Ꚅ", "Ꚇ", "Ꚉ", "Ꚋ", "Ꚍ", "Ꚏ", "Ꚑ", "Ꚓ",
    "Ꚕ", "Ꚗ", "Ꚙ", "Ꚛ", "Ꞁ", "Ꞃ", "Ꞅ", "Ꞇ", "Ꞌ", "Ɥ", "Ꞑ", "Ꞓ", "Ꞗ", "Ꞙ", "Ꞛ", "Ꞝ",
    "Ꞟ", "Ꞡ", "Ꞣ", "Ꞥ", "Ꞧ", "Ꞩ", "Ɦ", "Ɜ", "Ɡ", "Ɬ", "Ɪ", "Ʞ", "Ʇ", "Ʝ", "Ꭓ", "Ꞵ",
    "Ꞷ", "Ꞹ", "Ꞻ", "Ꞽ", "Ꞿ", "Ꟁ", "Ꟃ", "Ꞔ", "Ʂ", "Ᶎ", "Ꟈ", "Ꟊ", "Ɤ", "Ꟍ", "꟎", "Ꟑ",
    "꟒", "꟔", "Ꟗ", "Ꟙ", "Ꟛ", "Ƛ", "Ꟶ">>

\* The images of the characters of UpperCase, as a function.  An image that
\* a string of a module cannot hold is written as its code point, "U+0253":
\* it is one character of a text, different from every other.
LowerCase ==
  LET lower ==
        <<"a", "b", "c", "d", "e", "f", "g", "h", "i", "j",
          "k", "l", "m", "n", "o", "p", "q", "r", "s", "t",
          "u", "v", "w", "x", "y", "z", "à", "á", "â", "ã",
          "ä", "å", "æ", "ç", "è", "é", "ê", "ë", "ì", "í",
          "î", "ï", "ð", "ñ", "ò", "ó", "ô", "õ", "ö", "ø",
          "ù", "ú", "û", "ü", "ý", "þ", "U+0253", "ƃ", "ƅ", "U+0254",
          "ƈ", "U+0256", "U+0257", "ƌ", "ǝ", "U+0259", "U+025B", "ƒ", "U+0260", "U+0263",
          "U+0269", "U+0268", "ƙ", "U+026F", "U+0272", "U+0275", "ơ", "ƣ", "ƥ", "ʀ",
          "ƨ", "ʃ", "ƭ", "ʈ", "ư", "ʊ", "ʋ", "ƴ", "ƶ", "ʒ",
          "ƹ", "ƽ", "ǆ", "ǆ", "ǉ", "ǉ", "ǌ", "ǌ", "ǎ", "ǐ",
          "ǒ", "ǔ", "ǖ", "ǘ", "ǚ", "ǜ", "ǟ", "ǡ", "ǣ", "ǥ",
          "ǧ", "ǩ", "ǫ", "ǭ", "ǯ", "ǳ", "ǳ", "ǵ", "ƕ", "ƿ",
          "ǹ", "ǻ", "ǽ", "ǿ", "ά", "έ", "ή", "ί", "ό", "ύ",
          "ώ", "α", "β", "γ", "δ", "ε", "ζ", "η", "θ", "ι",
          "κ", "λ", "μ", "ν", "ξ", "ο", "π", "ρ", "σ", "τ",
          "υ", "φ", "χ", "ψ", "ω", "ϊ", "ϋ", "ϗ", "ϙ", "ϛ",
          "ϝ", "ϟ", "ϡ", "ϣ", "ϥ", "ϧ", "ϩ", "ϫ", "ϭ", "ϯ",
          "θ", "ϸ", "ϲ", "ϻ", "U+037B", "U+037C", "U+037D", "ҁ", "ҋ", "ҍ",
          "ҏ", "ґ", "ғ", "ҕ", "җ", "ҙ", "қ", "ҝ", "ҟ", "ҡ",
          "ң", "ҥ", "ҧ", "ҩ", "ҫ", "ҭ", "ү", "ұ", "ҳ", "ҵ",
          "ҷ", "ҹ", "һ", "ҽ", "ҿ", "ӏ", "ӂ", "ӄ", "ӆ", "ӈ",
          "ӊ", "ӌ", "ӎ", "ӑ", "ӓ", "ӕ", "ӗ", "ә", "ӛ", "ӝ",
          "ӟ", "ӡ", "ӣ", "ӥ", "ӧ", "ө", "ӫ", "ӭ", "ӯ", "ӱ",
          "ӳ", "ӵ", "ӷ", "ӹ", "ӻ", "ӽ", "ӿ", "U+2D00", "U+2D01", "U+2D02",
          "U+2D03", "U+2D04", "U+2D05", "U+2D06", "U+2D07", "U+2D08", "U+2D09", "U+2D0A", "U+2D0B", "U+2D0C",
          "U+2D0D", "U+2D0E", "U+2D0F", "U+2D10", "U+2D11", "U+2D12", "U+2D13", "U+2D14", "U+2D15", "U+2D16",
          "U+2D17", "U+2D18", "U+2D19", "U+2D1A", "U+2D1B", "U+2D1C", "U+2D1D", "U+2D1E", "U+2D1F", "U+2D20",
          "U+2D21", "U+2D22", "U+2D23", "U+2D24", "U+2D25", "U+2D27", "U+2D2D", "U+AB70", "U+AB71", "U+AB72",
          "U+AB73", "U+AB74", "U+AB75", "U+AB76", "U+AB77", "U+AB78", "U+AB79", "U+AB7A", "U+AB7B", "U+AB7C",
          "U+AB7D", "U+AB7E", "U+AB7F", "ꮀ", "ꮁ", "ꮂ", "ꮃ", "ꮄ", "ꮅ", "ꮆ",
          "ꮇ", "ꮈ", "ꮉ", "ꮊ", "ꮋ", "ꮌ", "ꮍ", "ꮎ", "ꮏ", "ꮐ",
          "ꮑ", "ꮒ", "ꮓ", "ꮔ", "ꮕ", "ꮖ", "ꮗ", "ꮘ", "ꮙ", "ꮚ",
          "ꮛ", "ꮜ", "ꮝ", "ꮞ", "ꮟ", "ꮠ", "ꮡ", "ꮢ", "ꮣ", "ꮤ",
          "ꮥ", "ꮦ", "ꮧ", "ꮨ", "ꮩ", "ꮪ", "ꮫ", "ꮬ", "ꮭ", "ꮮ",
          "ꮯ", "ꮰ", "ꮱ", "ꮲ", "ꮳ", "ꮴ", "ꮵ", "ꮶ", "ꮷ", "ꮸ",
          "ꮹ", "ꮺ", "ꮻ", "ꮼ", "ꮽ", "ꮾ", "ꮿ", "ᏸ", "ᏹ", "ᏺ",
          "ᏻ", "ᏼ", "ᏽ", "ᲊ", "ა", "ბ", "გ", "დ", "ე", "ვ",
          "ზ", "თ", "ი", "კ", "ლ", "მ", "ნ", "ო", "პ", "ჟ",
          "რ", "ს", "ტ", "უ", "ფ", "ქ", "ღ", "ყ", "შ", "ჩ",
          "ც", "ძ", "წ", "ჭ", "ხ", "ჯ", "ჰ", "ჱ", "ჲ", "ჳ",
          "ჴ", "ჵ", "ჶ", "ჷ", "ჸ", "ჹ", "ჺ", "ჽ", "ჾ", "ჿ",
          "ẁ", "ẃ", "ẅ", "ẇ", "ẉ", "ẋ", "ẍ", "ẏ", "ẑ", "ẓ",
          "ẕ", "ß", "ạ", "ả", "ấ", "ầ", "ẩ", "ẫ", "ậ", "ắ",
          "ằ", "ẳ", "ẵ", "ặ", "ẹ", "ẻ", "ẽ", "ế", "ề", "ể",
          "ễ", "ệ", "ỉ", "ị", "ọ", "ỏ", "ố", "ồ", "ổ", "ỗ",
          "ộ", "ớ", "ờ", "ở", "ỡ", "ợ", "ụ", "ủ", "ứ", "ừ",
          "ử", "ữ", "ự", "ỳ", "ỵ", "ỷ", "ỹ", "ỻ", "ỽ", "ỿ",
          "ᾀ", "ᾁ", "ᾂ", "ᾃ", "ᾄ", "ᾅ", "ᾆ", "ᾇ", "ᾐ", "ᾑ",
          "ᾒ", "ᾓ", "ᾔ", "ᾕ", "ᾖ", "ᾗ", "ᾠ", "ᾡ", "ᾢ", "ᾣ",
          "ᾤ", "ᾥ", "ᾦ", "ᾧ", "ᾰ", "ᾱ", "U+1F70", "U+1F71", "ᾳ", "U+1F72",
          "U+1F73", "U+1F74", "U+1F75", "ῃ", "ῐ", "ῑ", "U+1F76", "U+1F77", "ῠ", "ῡ",
          "U+1F7A", "U+1F7B", "ῥ", "U+1F78", "U+1F79", "U+1F7C", "U+1F7D", "ῳ", "ↄ", "ⓐ",
          "ⓑ", "ⓒ", "ⓓ", "ⓔ", "ⓕ", "ⓖ", "ⓗ", "ⓘ", "ⓙ", "ⓚ",
          "ⓛ", "ⓜ", "ⓝ", "ⓞ", "ⓟ", "ⓠ", "ⓡ", "ⓢ", "ⓣ", "ⓤ",
          "ⓥ", "ⓦ", "ⓧ", "ⓨ", "ⓩ", "ⲁ", "ⲃ", "ⲅ", "ⲇ", "ⲉ",
          "ⲋ", "ⲍ", "ⲏ", "ⲑ", "ⲓ", "ⲕ", "ⲗ", "ⲙ", "ⲛ", "ⲝ",
          "ⲟ", "ⲡ", "ⲣ", "ⲥ", "ⲧ", "ⲩ", "ⲫ", "ⲭ", "ⲯ", "ⲱ",
          "ⲳ", "ⲵ", "ⲷ", "ⲹ", "ⲻ", "ⲽ", "ⲿ", "ⳁ", "ⳃ", "ⳅ",
          "ⳇ", "ⳉ", "ⳋ", "ⳍ", "ⳏ", "ⳑ", "ⳓ", "ⳕ", "ⳗ", "ⳙ",
          "ⳛ", "ⳝ", "ⳟ", "ⳡ", "ⳣ", "ⳬ", "ⳮ", "ⳳ", "ꚁ", "ꚃ",
          "ꚅ", "ꚇ", "ꚉ", "ꚋ", "ꚍ", "ꚏ", "ꚑ", "ꚓ", "ꚕ", "ꚗ",
          "ꚙ", "ꚛ", "ꞁ", "ꞃ", "ꞅ", "ꞇ", "ꞌ", "U+0265", "ꞑ", "ꞓ",
          "ꞗ", "ꞙ", "ꞛ", "ꞝ", "ꞟ", "ꞡ", "ꞣ", "ꞥ", "ꞧ", "ꞩ",
          "U+0266", "U+025C", "U+0261", "U+026C", "U+026A", "ʞ", "ʇ", "ʝ", "U+AB53", "ꞵ",
          "ꞷ", "ꞹ", "ꞻ", "ꞽ", "ꞿ", "ꟁ", "ꟃ", "ꞔ", "ʂ", "ᶎ",
          "ꟈ", "ꟊ", "U+0264", "ꟍ", "꟏", "ꟑ", "ꟓ", "ꟕ", "ꟗ", "ꟙ",
          "ꟛ", "ƛ", "ꟶ">>
  IN [c \in {UpperCase[i] : i \in 1..Len(UpperCase)} |->
        lower[CHOOSE i \in 1..Len(UpperCase) : UpperCase[i] = c]]

\* String.prototype.toLowerCase.  A capital sigma becomes the final sigma
\* where it ends a word (Final_Sigma of the Unicode standard): it is preceded
\* by a cased letter and not followed by one, case-ignorable characters being
\* skipped on both sides.  The images of LowerCase are cased letters.
ToLowerCase(t) ==
  LET LowerChar(c) == IF c \in DOMAIN LowerCase THEN LowerCase[c] ELSE c IN
  IF \A i \in 1..Len(t) : t[i] # "Σ" THEN [i \in 1..Len(t) |-> LowerChar(t[i])]
  ELSE
    LET ignorable ==
          {"'", ".", ":", "^", "¨", "­", "¯", "´", "·", "¸", "ʰ", "ʱ", "ʲ", "ʳ", "ʴ", "ʵ",
           "ʶ", "ʷ", "ʸ", "ʹ", "ʺ", "ʻ", "ʼ", "ʽ", "ʾ", "ʿ", "ˀ", "ˁ", "˂", "˃", "˄", "˅",
           "ˆ", "ˇ", "ˈ", "ˉ", "ˊ", "ˋ", "ˌ", "ˍ", "ˎ", "ˏ", "ː", "ˑ", "˒", "˓", "˔", "˕",
           "˖", "˗", "˘", "˙", "˚", "˛", "˜", "˝", "˞", "˟", "ˠ", "ˡ", "ˢ", "ˣ", "ˤ", "˥",
           "˦", "˧", "˨", "˩", "˪", "˫", "ˬ", "˭", "ˮ", "˯", "˰", "˱", "˲", "˳", "˴", "˵",
           "˶", "˷", "˸", "˹", "˺", "˻", "˼", "˽", "˾", "˿", "΄", "΅", "·", "҃", "҄", "҅",
           "҆", "҇", "҈", "҉", "֑", "֒", "֓", "֔", "֕", "֖", "֗", "֘", "֙", "֚", "֛", "֜",
           "֝", "֞", "֟", "֠", "֡", "֢", "֣", "֤", "֥", "֦", "֧", "֨", "֩", "֪", "֫", "֬",
           "֭", "֮", "֯", "ְ", "ֱ", "ֲ", "ֳ", "ִ", "ֵ", "ֶ", "ַ", "ָ", "ֹ", "ֺ", "ֻ", "ּ",
           "ֽ", "ֿ", "ׁ", "ׂ", "ׄ", "ׅ", "ׇ", "״", "ۖ", "ۗ", "ۘ", "ۙ", "ۚ", "ۛ", "ۜ", "۝",
           "۟", "۠", "ۡ", "ۢ", "ۣ", "ۤ", "ۥ", "ۦ", "ۧ", "ۨ", "۪", "۫", "۬", "ۭ", "ަ", "ާ",
           "ި", "ީ", "ު", "ޫ", "ެ", "ޭ", "ޮ", "ޯ", "ް", "߫", "߬", "߭", "߮", "߯", "߰", "߱",
           "߲", "߳", "ߴ", "ߵ", "ߺ", "߽", "࢈", "࢐", "࢑", "ࢗ", "࢘", "࢙", "࢚", "࢛", "࢜", "࢝",
           "࢞", "࢟", "ࣉ", "࣊", "࣋", "࣌", "࣍", "࣎", "࣏", "࣐", "࣑", "࣒", "࣓", "ࣔ", "ࣕ", "ࣖ",
           "ࣗ", "ࣘ", "ࣙ", "ࣚ", "ࣛ", "ࣜ", "ࣝ", "ࣞ", "ࣟ", "࣠", "࣡", "࣢", "ࣣ", "ࣤ", "ࣥ", "ࣦ",
           "ࣧ", "ࣨ", "ࣩ", "࣪", "࣫", "࣬", "࣭", "࣮", "࣯", "ࣰ", "ࣱ", "ࣲ", "ࣳ", "ࣴ", "ࣵ", "ࣶ",
           "ࣷ", "ࣸ", "ࣹ", "ࣺ", "ࣻ", "ࣼ", "ࣽ", "ࣾ", "ࣿ", "ঁ", "়", "ু", "ূ", "ৃ", "ৄ", "্",
           "ৢ", "ৣ", "৾", "ઁ", "ં", "઼", "ુ", "ૂ", "ૃ", "ૄ", "ૅ", "ે", "ૈ", "્", "ૢ", "ૣ",
           "ૺ", "ૻ", "ૼ", "૽", "૾", "૿", "ஂ", "ீ", "்", "ಁ", "಼", "ಿ", "ೆ", "ೌ", "್", "ೢ",
           "ೣ", "ඁ", "්", "ි", "ී", "ු", "ූ", "ັ", "ິ", "ີ", "ຶ", "ື", "ຸ", "ູ", "຺", "ົ",
           "ຼ", "ໆ", "່", "້", "໊", "໋", "໌", "ໍ", "໎", "ྀ", "ཱྀ", "ྂ", "ྃ", "྄", "྆", "྇",
           "ྍ", "ྎ", "ྏ", "ྐ", "ྑ", "ྒ", "ྒྷ", "ྔ", "ྕ", "ྖ", "ྗ", "ྙ", "ྚ", "ྛ", "ྜ", "ྜྷ",
           "ྞ", "ྟ", "ྠ", "ྡ", "ྡྷ", "ྣ", "ྤ", "ྥ", "ྦ", "ྦྷ", "ྨ", "ྩ", "ྪ", "ྫ", "ྫྷ", "ྭ",
           "ྮ", "ྯ", "ྰ", "ྱ", "ྲ", "ླ", "ྴ", "ྵ", "ྶ", "ྷ", "ྸ", "ྐྵ", "ྺ", "ྻ", "ྼ", "࿆",
           "ႂ", "ႅ", "ႆ", "ႍ", "ႝ", "ჼ", "឴", "឵", "ិ", "ី", "ឹ", "ឺ", "ុ", "ូ", "ួ", "ំ",
           "៉", "៊", "់", "៌", "៍", "៎", "៏", "័", "៑", "្", "៓", "ៗ", "៝", "ᢅ", "ᢆ", "ᢩ",
           "ᪧ", "᪰", "᪱", "᪲", "᪳", "᪴", "᪵", "᪶", "᪷", "᪸", "᪹", "᪺", "᪻", "᪼", "᪽", "᪾",
           "ᪿ", "ᫀ", "᫁", "᫂", "᫃", "᫄", "᫅", "᫆", "᫇", "᫈", "᫉", "᫊", "᫋", "ᫌ", "ᫍ", "ᫎ",
           "᫏", "᫐", "᫑", "᫒", "᫓", "᫔", "᫕", "᫖", "᫗", "᫘", "᫙", "᫚", "᫛", "᫜", "᫝", "᫠",
           "᫡", "᫢", "᫣", "᫤", "᫥", "᫦", "᫧", "᫨", "᫩", "᫪", "᫫", "ᮀ", "ᮁ", "ᮢ", "ᮣ", "ᮤ",
           "ᮥ", "ᮨ", "ᮩ", "᮫", "ᮬ", "ᮭ", "᯦", "ᯨ", "ᯩ", "ᯭ", "ᯯ", "ᯰ", "ᯱ", "᳐", "᳑", "᳒",
           "᳔", "᳕", "᳖", "᳗", "᳘", "᳙", "᳚", "᳛", "᳜", "᳝", "᳞", "᳟", "᳠", "᳢", "᳣", "᳤",
           "᳥", "᳦", "᳧", "᳨", "᳭", "᳴", "᳸", "᳹", "ᶛ", "ᶜ", "ᶝ", "ᶞ", "ᶟ", "ᶠ", "ᶡ", "ᶢ",
           "ᶣ", "ᶤ", "ᶥ", "ᶦ", "ᶧ", "ᶨ", "ᶩ", "ᶪ", "ᶫ", "ᶬ", "ᶭ", "ᶮ", "ᶯ", "ᶰ", "ᶱ", "ᶲ",
           "ᶳ", "ᶴ", "ᶵ", "ᶶ", "ᶷ", "ᶸ", "ᶹ", "ᶺ", "ᶻ", "ᶼ", "ᶽ", "ᶾ", "ᶿ", "᷀", "᷁", "᷂",
           "᷃", "᷄", "᷅", "᷆", "᷇", "᷈", "᷉", "᷊", "᷋", "᷌", "᷍", "᷎", "᷏", "᷐", "᷑", "᷒",
           "ᷓ", "ᷔ", "ᷕ", "ᷖ", "ᷗ", "ᷘ", "ᷙ", "ᷚ", "ᷛ", "ᷜ", "ᷝ", "ᷞ", "ᷟ", "ᷠ", "ᷡ", "ᷢ",
           "ᷣ", "ᷤ", "ᷥ", "ᷦ", "ᷧ", "ᷨ", "ᷩ", "ᷪ", "ᷫ", "ᷬ", "ᷭ", "ᷮ", "ᷯ", "ᷰ", "ᷱ", "ᷲ",
           "ᷳ", "ᷴ", "᷵", "᷶", "᷷", "᷸", "᷹", "᷺", "᷻", "᷼", "᷽", "᷾", "᷿", "᾽", "᾿", "῀",
           "῁", "῍", "῎", "῏", "῝", "῞", "῟", "῭", "΅", "`", "´", "῾", "ₐ", "ₑ", "ₒ", "ₓ",
           "ₔ", "ₕ", "ₖ", "ₗ", "ₘ", "ₙ", "ₚ", "ₛ", "ₜ", "⃐", "⃑", "⃒", "⃓", "⃔", "⃕", "⃖",
           "⃗", "⃘", "⃙", "⃚", "⃛", "⃜", "⃝", "⃞", "⃟", "⃠", "⃡", "⃢", "⃣", "⃤", "⃥", "⃦",
           "⃧", "⃨", "⃩", "⃪", "⃫", "⃬", "⃭", "⃮", "⃯", "⃰", "⳯", "⳰", "⳱", "ⷠ", "ⷡ", "ⷢ",
           "ⷣ", "ⷤ", "ⷥ", "ⷦ", "ⷧ", "ⷨ", "ⷩ", "ⷪ", "ⷫ", "ⷬ", "ⷭ", "ⷮ", "ⷯ", "ⷰ", "ⷱ", "ⷲ",
           "ⷳ", "ⷴ", "ⷵ", "ⷶ", "ⷷ", "ⷸ", "ⷹ", "ⷺ", "ⷻ", "ⷼ", "ⷽ", "ⷾ", "ⷿ", "゙", "゚", "゛",
           "゜", "ゝ", "ゞ", "ー", "ヽ", "ヾ", "ꓸ", "ꓹ", "ꓺ", "ꓻ", "ꓼ", "ꓽ", "ꚜ", "ꚝ", "ꚞ", "ꚟ",
           "꛰", "꛱", "ꞈ", "꞉", "꞊", "꟱", "ꟲ", "ꟳ", "ꟴ", "ꟸ", "ꟹ", "꣄", "ꣅ", "꣠", "꣡", "꣢",
           "꣣", "꣤", "꣥", "꣦", "꣧", "꣨", "꣩", "꣪", "꣫", "꣬", "꣭", "꣮", "꣯", "꣰", "꣱", "ꣿ",
           "ꦀ", "ꦁ", "ꦂ", "꦳", "ꦶ", "ꦷ", "ꦸ", "ꦹ", "ꦼ", "ꦽ", "ꧏ", "ꧥ", "ꧦ", "ꪰ", "ꪲ", "ꪳ",
           "ꪴ", "ꪷ", "ꪸ", "ꪾ", "꪿", "꫁", "ꫝ", "ꫬ", "ꫭ", "ꫳ", "ꫴ", "꫶", "ꯥ", "ꯨ", "꯭", "﮲",
           "﮳", "﮴", "﮵", "﮶", "﮷", "﮸", "﮹", "﮺", "﮻", "﮼", "﮽", "﮾", "﮿", "﯀", "﯁", "﯂",
           "﻿", "ﾞ", "ﾟ", "￣", "￹", "￺", "￻"}
        cased ==
          {"A", "B", "C", "D", "E", "F", "G", "H", "I", "J", "K", "L", "M", "N", "O", "P",
           "Q", "R", "S", "T", "U", "V", "W", "X", "Y", "Z", "a", "b", "c", "d", "e", "f",
           "g", "h", "i", "j", "k", "l", "m", "n", "o", "p", "q", "r", "s", "t", "u", "v",
           "w", "x", "y", "z", "ª", "µ", "º", "À", "Á", "Â", "Ã", "Ä", "Å", "Æ", "Ç", "È",
           "É", "Ê", "Ë", "Ì", "Í", "Î", "Ï", "Ð", "Ñ", "Ò", "Ó", "Ô", "Õ", "Ö", "Ø", "Ù",
           "Ú", "Û", "Ü", "Ý", "Þ", "ß", "à", "á", "â", "ã", "ä", "å", "æ", "ç", "è", "é",
           "ê", "ë", "ì", "í", "î", "ï", "ð", "ñ", "ò", "ó", "ô", "õ", "ö", "ø", "ù", "ú",
           "û", "ü", "ý", "þ", "ÿ", "ƀ", "Ɓ", "Ƃ", "ƃ", "Ƅ", "ƅ", "Ɔ", "Ƈ", "ƈ", "Ɖ", "Ɗ",
           "Ƌ", "ƌ", "ƍ", "Ǝ", "Ə", "Ɛ", "Ƒ", "ƒ", "Ɠ", "Ɣ", "ƕ", "Ɩ", "Ɨ", "Ƙ", "ƙ", "ƚ",
           "ƛ", "Ɯ", "Ɲ", "ƞ", "Ɵ", "Ơ", "ơ", "Ƣ", "ƣ", "Ƥ", "ƥ", "Ʀ", "Ƨ", "ƨ", "Ʃ", "ƪ",
           "ƫ", "Ƭ", "ƭ", "Ʈ", "Ư", "ư", "Ʊ", "Ʋ", "Ƴ", "ƴ", "Ƶ", "ƶ", "Ʒ", "Ƹ", "ƹ", "ƺ",
           "Ƽ", "ƽ", "ƾ", "ƿ", "Ǆ", "ǅ", "ǆ", "Ǉ", "ǈ", "ǉ", "Ǌ", "ǋ", "ǌ", "Ǎ", "ǎ", "Ǐ",
           "ǐ", "Ǒ", "ǒ", "Ǔ", "ǔ", "Ǖ", "ǖ", "Ǘ", "ǘ", "Ǚ", "ǚ", "Ǜ", "ǜ", "ǝ", "Ǟ", "ǟ",
           "Ǡ", "ǡ", "Ǣ", "ǣ", "Ǥ", "ǥ", "Ǧ", "ǧ", "Ǩ", "ǩ", "Ǫ", "ǫ", "Ǭ", "ǭ", "Ǯ", "ǯ",
           "ǰ", "Ǳ", "ǲ", "ǳ", "Ǵ", "ǵ", "Ƕ", "Ƿ", "Ǹ", "ǹ", "Ǻ", "ǻ", "Ǽ", "ǽ", "Ǿ", "ǿ",
           "ʀ", "ʁ", "ʂ", "ʃ", "ʄ", "ʅ", "ʆ", "ʇ", "ʈ", "ʉ", "ʊ", "ʋ", "ʌ", "ʍ", "ʎ", "ʏ",
           "ʐ", "ʑ", "ʒ", "ʓ", "ʖ", "ʗ", "ʘ", "ʙ", "ʚ", "ʛ", "ʜ", "ʝ", "ʞ", "ʟ", "ʠ", "ʡ",
           "ʢ", "ʣ", "ʤ", "ʥ", "ʦ", "ʧ", "ʨ", "ʩ", "ʪ", "ʫ", "ʬ", "ʭ", "ʮ", "ʯ", "Ά", "Έ",
           "Ή", "Ί", "Ό", "Ύ", "Ώ", "ΐ", "Α", "Β", "Γ", "Δ", "Ε", "Ζ", "Η", "Θ", "Ι", "Κ",
           "Λ", "Μ", "Ν", "Ξ", "Ο", "Π", "Ρ", "Σ", "Τ", "Υ", "Φ", "Χ", "Ψ", "Ω", "Ϊ", "Ϋ",
           "ά", "έ", "ή", "ί", "ΰ", "α", "β", "γ", "δ", "ε", "ζ", "η", "θ", "ι", "κ", "λ",
           "μ", "ν", "ξ", "ο", "π", "ρ", "ς", "σ", "τ", "υ", "φ", "χ", "ψ", "ω", "ϊ", "ϋ",
           "ό", "ύ", "ώ", "Ϗ", "ϐ", "ϑ", "ϒ", "ϓ", "ϔ", "ϕ", "ϖ", "ϗ", "Ϙ", "ϙ", "Ϛ", "ϛ",
           "Ϝ", "ϝ", "Ϟ", "ϟ", "Ϡ", "ϡ", "Ϣ", "ϣ", "Ϥ", "ϥ", "Ϧ", "ϧ", "Ϩ", "ϩ", "Ϫ", "ϫ",
           "Ϭ", "ϭ", "Ϯ", "ϯ", "ϰ", "ϱ", "ϲ", "ϳ", "ϴ", "ϵ", "Ϸ", "ϸ", "Ϲ", "Ϻ", "ϻ", "ϼ",
           "Ͻ", "Ͼ", "Ͽ", "Ҁ", "ҁ", "Ҋ", "ҋ", "Ҍ", "ҍ", "Ҏ", "ҏ", "Ґ", "ґ", "Ғ", "ғ", "Ҕ",
           "ҕ", "Җ", "җ", "Ҙ", "ҙ", "Қ", "қ", "Ҝ", "ҝ", "Ҟ", "ҟ", "Ҡ", "ҡ", "Ң", "ң", "Ҥ",
           "ҥ", "Ҧ", "ҧ", "Ҩ", "ҩ", "Ҫ", "ҫ", "Ҭ", "ҭ", "Ү", "ү", "Ұ", "ұ", "Ҳ", "ҳ", "Ҵ",
           "ҵ", "Ҷ", "ҷ", "Ҹ", "ҹ", "Һ", "һ", "Ҽ", "ҽ", "Ҿ", "ҿ", "Ӏ", "Ӂ", "ӂ", "Ӄ", "ӄ",
           "Ӆ", "ӆ", "Ӈ", "ӈ", "Ӊ", "ӊ", "Ӌ", "ӌ", "Ӎ", "ӎ", "ӏ", "Ӑ", "ӑ", "Ӓ", "ӓ", "Ӕ",
           "ӕ", "Ӗ", "ӗ", "Ә", "ә", "Ӛ", "ӛ", "Ӝ", "ӝ", "Ӟ", "ӟ", "Ӡ", "ӡ", "Ӣ", "ӣ", "Ӥ",
           "ӥ", "Ӧ", "ӧ", "Ө", "ө", "Ӫ", "ӫ", "Ӭ", "ӭ", "Ӯ", "ӯ", "Ӱ", "ӱ", "Ӳ", "ӳ", "Ӵ",
           "ӵ", "Ӷ", "ӷ", "Ӹ", "ӹ", "Ӻ", "ӻ", "Ӽ", "ӽ", "Ӿ", "ӿ", "ր", "ց", "ւ", "փ", "ք",
           "օ", "ֆ", "և", "ֈ", "Ⴀ", "Ⴁ", "Ⴂ", "Ⴃ", "Ⴄ", "Ⴅ", "Ⴆ", "Ⴇ", "Ⴈ", "Ⴉ", "Ⴊ", "Ⴋ",
           "Ⴌ", "Ⴍ", "Ⴎ", "Ⴏ", "Ⴐ", "Ⴑ", "Ⴒ", "Ⴓ", "Ⴔ", "Ⴕ", "Ⴖ", "Ⴗ", "Ⴘ", "Ⴙ", "Ⴚ", "Ⴛ",
           "Ⴜ", "Ⴝ", "Ⴞ", "Ⴟ", "Ⴠ", "Ⴡ", "Ⴢ", "Ⴣ", "Ⴤ", "Ⴥ", "Ⴧ", "Ⴭ", "ა", "ბ", "გ", "დ",
           "ე", "ვ", "ზ", "თ", "ი", "კ", "ლ", "მ", "ნ", "ო", "პ", "ჟ", "რ", "ს", "ტ", "უ",
           "ფ", "ქ", "ღ", "ყ", "შ", "ჩ", "ც", "ძ", "წ", "ჭ", "ხ", "ჯ", "ჰ", "ჱ", "ჲ", "ჳ",
           "ჴ", "ჵ", "ჶ", "ჷ", "ჸ", "ჹ", "ჺ", "ჽ", "ჾ", "ჿ", "Ꭰ", "Ꭱ", "Ꭲ", "Ꭳ", "Ꭴ", "Ꭵ",
           "Ꭶ", "Ꭷ", "Ꭸ", "Ꭹ", "Ꭺ", "Ꭻ", "Ꭼ", "Ꭽ", "Ꭾ", "Ꭿ", "Ꮀ", "Ꮁ", "Ꮂ", "Ꮃ", "Ꮄ", "Ꮅ",
           "Ꮆ", "Ꮇ", "Ꮈ", "Ꮉ", "Ꮊ", "Ꮋ", "Ꮌ", "Ꮍ", "Ꮎ", "Ꮏ", "Ꮐ", "Ꮑ", "Ꮒ", "Ꮓ", "Ꮔ", "Ꮕ",
           "Ꮖ", "Ꮗ", "Ꮘ", "Ꮙ", "Ꮚ", "Ꮛ", "Ꮜ", "Ꮝ", "Ꮞ", "Ꮟ", "Ꮠ", "Ꮡ", "Ꮢ", "Ꮣ", "Ꮤ", "Ꮥ",
           "Ꮦ", "Ꮧ", "Ꮨ", "Ꮩ", "Ꮪ", "Ꮫ", "Ꮬ", "Ꮭ", "Ꮮ", "Ꮯ", "Ꮰ", "Ꮱ", "Ꮲ", "Ꮳ", "Ꮴ", "Ꮵ",
           "Ꮶ", "Ꮷ", "Ꮸ", "Ꮹ", "Ꮺ", "Ꮻ", "Ꮼ", "Ꮽ", "Ꮾ", "Ꮿ", "Ᏸ", "Ᏹ", "Ᏺ", "Ᏻ", "Ᏼ", "Ᏽ",
           "ᏸ", "ᏹ", "ᏺ", "ᏻ", "ᏼ", "ᏽ", "ᲀ", "ᲁ", "ᲂ", "ᲃ", "ᲄ", "ᲅ", "ᲆ", "ᲇ", "ᲈ", "Ᲊ",
           "ᲊ", "Ა", "Ბ", "Გ", "Დ", "Ე", "Ვ", "Ზ", "Თ", "Ი", "Კ", "Ლ", "Მ", "Ნ", "Ო", "Პ",
           "Ჟ", "Რ", "Ს", "Ტ", "Უ", "Ფ", "Ქ", "Ღ", "Ყ", "Შ", "Ჩ", "Ც", "Ძ", "Წ", "Ჭ", "Ხ",
           "Ჯ", "Ჰ", "Ჱ", "Ჲ", "Ჳ", "Ჴ", "Ჵ", "Ჶ", "Ჷ", "Ჸ", "Ჹ", "Ჺ", "Ჽ", "Ჾ", "Ჿ", "ᶀ",
           "ᶁ", "ᶂ", "ᶃ", "ᶄ", "ᶅ", "ᶆ", "ᶇ", "ᶈ", "ᶉ", "ᶊ", "ᶋ", "ᶌ", "ᶍ", "ᶎ", "ᶏ", "ᶐ",
           "ᶑ", "ᶒ", "ᶓ", "ᶔ", "ᶕ", "ᶖ", "ᶗ", "ᶘ", "ᶙ", "ᶚ", "Ẁ", "ẁ", "Ẃ", "ẃ", "Ẅ", "ẅ",
           "Ẇ", "ẇ", "Ẉ", "ẉ", "Ẋ", "ẋ", "Ẍ", "ẍ", "Ẏ", "ẏ", "Ẑ", "ẑ", "Ẓ", "ẓ", "Ẕ", "ẕ",
           "ẖ", "ẗ", "ẘ", "ẙ", "ẚ", "ẛ", "ẜ", "ẝ", "ẞ", "ẟ", "Ạ", "ạ", "Ả", "ả", "Ấ", "ấ",
           "Ầ", "ầ", "Ẩ", "ẩ", "Ẫ", "ẫ", "Ậ", "ậ", "Ắ", "ắ", "Ằ", "ằ", "Ẳ", "ẳ", "Ẵ", "ẵ",
           "Ặ", "ặ", "Ẹ", "ẹ", "Ẻ", "ẻ", "Ẽ", "ẽ", "Ế", "ế", "Ề", "ề", "Ể", "ể", "Ễ", "ễ",
           "Ệ", "ệ", "Ỉ", "ỉ", "Ị", "ị", "Ọ", "ọ", "Ỏ", "ỏ", "Ố", "ố", "Ồ", "ồ", "Ổ", "ổ",
           "Ỗ", "ỗ", "Ộ", "ộ", "Ớ", "ớ", "Ờ", "ờ", "Ở", "ở", "Ỡ", "ỡ", "Ợ", "ợ", "Ụ", "ụ",
           "Ủ", "ủ", "Ứ", "ứ", "Ừ", "ừ", "Ử", "ử", "Ữ", "ữ", "Ự", "ự", "Ỳ", "ỳ", "Ỵ", "ỵ",
           "Ỷ", "ỷ", "Ỹ", "ỹ", "Ỻ", "ỻ", "Ỽ", "ỽ", "Ỿ", "ỿ", "ᾀ", "ᾁ", "ᾂ", "ᾃ", "ᾄ", "ᾅ",
           "ᾆ", "ᾇ", "ᾈ", "ᾉ", "ᾊ", "ᾋ", "ᾌ", "ᾍ", "ᾎ", "ᾏ", "ᾐ", "ᾑ", "ᾒ", "ᾓ", "ᾔ", "ᾕ",
           "ᾖ", "ᾗ", "ᾘ", "ᾙ", "ᾚ", "ᾛ", "ᾜ", "ᾝ", "ᾞ", "ᾟ", "ᾠ", "ᾡ", "ᾢ", "ᾣ", "ᾤ", "ᾥ",
           "ᾦ", "ᾧ", "ᾨ", "ᾩ", "ᾪ", "ᾫ", "ᾬ", "ᾭ", "ᾮ", "ᾯ", "ᾰ", "ᾱ", "ᾲ", "ᾳ", "ᾴ", "ᾶ",
           "ᾷ", "Ᾰ", "Ᾱ", "Ὰ", "Ά", "ᾼ", "ι", "ῂ", "ῃ", "ῄ", "ῆ", "ῇ", "Ὲ", "Έ", "Ὴ", "Ή",
           "ῌ", "ῐ", "ῑ", "ῒ", "ΐ", "ῖ", "ῗ", "Ῐ", "Ῑ", "Ὶ", "Ί", "ῠ", "ῡ", "ῢ", "ΰ", "ῤ",
           "ῥ", "ῦ", "ῧ", "Ῠ", "Ῡ", "Ὺ", "Ύ", "Ῥ", "ῲ", "ῳ", "ῴ", "ῶ", "ῷ", "Ὸ", "Ό", "Ὼ",
           "Ώ", "ῼ", "Ↄ", "ↄ", "Ⓐ", "Ⓑ", "Ⓒ", "Ⓓ", "Ⓔ", "Ⓕ", "Ⓖ", "Ⓗ", "Ⓘ", "Ⓙ", "Ⓚ", "Ⓛ",
           "Ⓜ", "Ⓝ", "Ⓞ", "Ⓟ", "Ⓠ", "Ⓡ", "Ⓢ", "Ⓣ", "Ⓤ", "Ⓥ", "Ⓦ", "Ⓧ", "Ⓨ", "Ⓩ", "ⓐ", "ⓑ",
           "ⓒ", "ⓓ", "ⓔ", "ⓕ", "ⓖ", "ⓗ", "ⓘ", "ⓙ", "ⓚ", "ⓛ", "ⓜ", "ⓝ", "ⓞ", "ⓟ", "ⓠ", "ⓡ",
           "ⓢ", "ⓣ", "ⓤ", "ⓥ", "ⓦ", "ⓧ", "ⓨ", "ⓩ", "Ⲁ", "ⲁ", "Ⲃ", "ⲃ", "Ⲅ", "ⲅ", "Ⲇ", "ⲇ",
           "Ⲉ", "ⲉ", "Ⲋ", "ⲋ", "Ⲍ", "ⲍ", "Ⲏ", "ⲏ", "Ⲑ", "ⲑ", "Ⲓ", "ⲓ", "Ⲕ", "ⲕ", "Ⲗ", "ⲗ",
           "Ⲙ", "ⲙ", "Ⲛ", "ⲛ", "Ⲝ", "ⲝ", "Ⲟ", "ⲟ", "Ⲡ", "ⲡ", "Ⲣ", "ⲣ", "Ⲥ", "ⲥ", "Ⲧ", "ⲧ",
           "Ⲩ", "ⲩ", "Ⲫ", "ⲫ", "Ⲭ", "ⲭ", "Ⲯ", "ⲯ", "Ⲱ", "ⲱ", "Ⲳ", "ⲳ", "Ⲵ", "ⲵ", "Ⲷ", "ⲷ",
           "Ⲹ", "ⲹ", "Ⲻ", "ⲻ", "Ⲽ", "ⲽ", "Ⲿ", "ⲿ", "Ⳁ", "ⳁ", "Ⳃ", "ⳃ", "Ⳅ", "ⳅ", "Ⳇ", "ⳇ",
           "Ⳉ", "ⳉ", "Ⳋ", "ⳋ", "Ⳍ", "ⳍ", "Ⳏ", "ⳏ", "Ⳑ", "ⳑ", "Ⳓ", "ⳓ", "Ⳕ", "ⳕ", "Ⳗ", "ⳗ",
           "Ⳙ", "ⳙ", "Ⳛ", "ⳛ", "Ⳝ", "ⳝ", "Ⳟ", "ⳟ", "Ⳡ", "ⳡ", "Ⳣ", "ⳣ", "ⳤ", "Ⳬ", "ⳬ", "Ⳮ",
           "ⳮ", "Ⳳ", "ⳳ", "Ꚁ", "ꚁ", "Ꚃ", "ꚃ", "Ꚅ", "ꚅ", "Ꚇ", "ꚇ", "Ꚉ", "ꚉ", "Ꚋ", "ꚋ", "Ꚍ",
           "ꚍ", "Ꚏ", "ꚏ", "Ꚑ", "ꚑ", "Ꚓ", "ꚓ", "Ꚕ", "ꚕ", "Ꚗ", "ꚗ", "Ꚙ", "ꚙ", "Ꚛ", "ꚛ", "Ꞁ",
           "ꞁ", "Ꞃ", "ꞃ", "Ꞅ", "ꞅ", "Ꞇ", "ꞇ", "Ꞌ", "ꞌ", "Ɥ", "ꞎ", "Ꞑ", "ꞑ", "Ꞓ", "ꞓ", "ꞔ",
           "ꞕ", "Ꞗ", "ꞗ", "Ꞙ", "ꞙ", "Ꞛ", "ꞛ", "Ꞝ", "ꞝ", "Ꞟ", "ꞟ", "Ꞡ", "ꞡ", "Ꞣ", "ꞣ", "Ꞥ",
           "ꞥ", "Ꞧ", "ꞧ", "Ꞩ", "ꞩ", "Ɦ", "Ɜ", "Ɡ", "Ɬ", "Ɪ", "ꞯ", "Ʞ", "Ʇ", "Ʝ", "Ꭓ", "Ꞵ",
           "ꞵ", "Ꞷ", "ꞷ", "Ꞹ", "ꞹ", "Ꞻ", "ꞻ", "Ꞽ", "ꞽ", "Ꞿ", "ꞿ", "Ꟁ", "ꟁ", "Ꟃ", "ꟃ", "Ꞔ",
           "Ʂ", "Ᶎ", "Ꟈ", "ꟈ", "Ꟊ", "ꟊ", "Ɤ", "Ꟍ", "ꟍ", "꟎", "꟏", "Ꟑ", "ꟑ", "꟒", "ꟓ", "꟔",
           "ꟕ", "Ꟗ", "ꟗ", "Ꟙ", "ꟙ", "Ꟛ", "ꟛ", "Ƛ", "Ꟶ", "ꟶ", "ꟺ", "ꮀ", "ꮁ", "ꮂ", "ꮃ", "ꮄ",
           "ꮅ", "ꮆ", "ꮇ", "ꮈ", "ꮉ", "ꮊ", "ꮋ", "ꮌ", "ꮍ", "ꮎ", "ꮏ", "ꮐ", "ꮑ", "ꮒ", "ꮓ", "ꮔ",
           "ꮕ", "ꮖ", "ꮗ", "ꮘ", "ꮙ", "ꮚ", "ꮛ", "ꮜ", "ꮝ", "ꮞ", "ꮟ", "ꮠ", "ꮡ", "ꮢ", "ꮣ", "ꮤ",
           "ꮥ", "ꮦ", "ꮧ", "ꮨ", "ꮩ", "ꮪ", "ꮫ", "ꮬ", "ꮭ", "ꮮ", "ꮯ", "ꮰ", "ꮱ", "ꮲ", "ꮳ", "ꮴ",
           "ꮵ", "ꮶ", "ꮷ", "ꮸ", "ꮹ", "ꮺ", "ꮻ", "ꮼ", "ꮽ", "ꮾ", "ꮿ"}
            \cup {LowerCase[c] : c \in DOMAIN LowerCase}
        before(i) == \E j \in 1..(i - 1) :
                       /\ t[j] \in cased
                       /\ \A k \in (j + 1)..(i - 1) : t[k] \in ignorable
        after(i) == \E j \in (i + 1)..Len(t) :
                      /\ t[j] \in cased
                      /\ \A k \in (i + 1)..(j - 1) : t[k] \in ignorable
    IN [i \in 1..Len(t) |->
          IF t[i] = "Σ" /\ before(i) /\ ~after(i) THEN "ς" ELSE LowerChar(t[i])]

RECURSIVE TrimStart(_)
TrimStart(t) ==
  IF t # <<>> /\ IsSpace(Head(t)) THEN TrimStart(Tail(t)) ELSE t

RECURSIVE TrimEnd(_)
TrimEnd(t) ==
  IF t # <<>> /\ IsSpace(t[Len(t)]) THEN TrimEnd(SubSeq(t, 1, Len(t) - 1)) ELSE t

\* String.prototype.trim
Trim(t) == TrimEnd(TrimStart(t))

\* Index of the first character at or after i that is not white space.
RECURSIVE SkipSpaces(_, _)
SkipSpaces(t, i) ==
  IF i <= Len(t) /\ IsSpace(t[i]) THEN SkipSpaces(t, i + 1) ELSE i

\* Index of the first character at or after i that is in S, Len(t) + 1 if
\* there is none.
IndexOfAny(t, i, S) ==
  IF \E j \in i..Len(t) : t[j] \in S
    THEN CHOOSE j \in i..Len(t) : t[j] \in S /\ \A k \in i..(j - 1) : t[k] \notin S
    ELSE Len(t) + 1

\* text.split(/\s+/): the pieces of t from index i on, cur being the part of
\* the first piece that was already read.
RECURSIVE SplitWords(_, _, _)
SplitWords(t, i, cur) ==
  LET stop == IndexOfAny(t, i, {c \in {t[j] : j \in i..Len(t)} : IsSpace(c)})
      piece == cur \o SubSeq(t, i, stop - 1)
  IN IF stop > Len(t) THEN <<piece>>
     ELSE <<piece>> \o SplitWords(t, SkipSpaces(t, stop), <<>>)

\* text.split(/[.!?]\s*/)
RECURSIVE SplitPhrases(_, _, _)
SplitPhrases(t, i, cur) ==
  LET stop == IndexOfAny(t, i, {".", "!", "?"})
      piece == cur \o SubSeq(t, i, stop - 1)
  IN IF stop > Len(t) THEN <<piece>>
     ELSE <<piece>> \o SplitPhrases(t, SkipSpaces(t, stop + 1), <<>>)

\* A detector that flags nothing: the variant of detectHallucination that
\* property C16 has to reject.
DetectsNothing(text) == FALSE

\* The loop over phrases of detectHallucination: the trimmed phrase of more
\* than 5 characters is counted, and the third occurrence flags the text.
PhraseRepeated(phrases) ==
  \E i \in 1..Len(phrases) :
    /\ Len(Trim(phrases[i])) > MIN_PHRASE_LENGTH
    /\ Cardinality({j \in 1..i : Trim(phrases[j]) = Trim(phrases[i])}) >= PHRASE_REPEATS

\* The loop over words of detectHallucination, from index i (1-based) with
\* the running consecutiveCount.
RECURSIVE WordRepeated(_, _, _)
WordRepeated(words, i, consecutiveCount) ==
  IF i > Len(words) THEN FALSE
  ELSE IF words[i] = words[i - 1] /\ Len(words[i]) > MIN_WORD_LENGTH
    THEN IF consecutiveCount + 1 >= WORD_REPEATS
           THEN TRUE
           ELSE WordRepeated(words, i + 1, consecutiveCount + 1)
  ELSE WordRepeated(words, i + 1, 1)

detectHallucination(text) ==
  IF text = <<>> \/ Len(text) < MIN_TEXT_LENGTH THEN FALSE
  ELSE \/ PhraseRepeated(SplitPhrases(ToLowerCase(text), 1, <<>>))
       \/ WordRepeated(SplitWords(ToLowerCase(text), 1, <<>>), 2, 1)

(***************************************************************************)
(* The dictionary of the user and the vocabulary prompt that               *)
(* startLiveTranscription builds from it.  The optional canonical form of  *)
(* an entry is a sequence of no text (null) or of one text.                *)
(***************************************************************************)
Repeat(ch, n) == [i \in 1..n |-> ch]

Entry(phrase, canonical, priority) ==
  [phrase |-> phrase, canonical |-> canonical, priority |-> priority]

\* The entries a dictionary of the model is made of.  Their lengths put the
\* prompt on both sides of MAX_PROMPT_LENGTH.
EntryKinds ==
  { Entry(Repeat("a", 220), <<>>, 90),
    Entry(<<"x">>, <<Repeat("b", 225)>>, 80),
    Entry(Repeat("c", 224), << <<>> >>, 70),
    Entry(<<"d", "d">>, <<>>, 60),
    Entry(<<"z", "z", "z", "z">>, <<<<"e", "e", "e">>>>, 60),
    Entry(<<"f">>, <<>>, 50) }

\* findMany with orderBy { priority: "desc" } (lines 507-510): what the model
\* may read is ordered by descending priority.
PriorityOrdered(dictionary) ==
  \A i \in 1..(Len(dictionary) - 1) :
    dictionary[i].priority >= dictionary[i + 1].priority

RECURSIVE SeqsUpTo(_, _)
SeqsUpTo(S, n) ==
  IF n = 0 THEN {<<>>}
  ELSE LET shorter == SeqsUpTo(S, n - 1)
       IN shorter \cup {Append(d, e) : d \in shorter, e \in S}

Dictionaries == {d \in SeqsUpTo(EntryKinds, MaxEntries) : PriorityOrdered(d)}

\* Line 520: entry.canonical || entry.phrase.  An empty canonical form is
\* falsy, like a missing one.
TermOf(entry) ==
  IF entry.canonical # <<>> /\ entry.canonical[1] # <<>>
    THEN entry.canonical[1]
    ELSE entry.phrase

\* terms.join(", ")
RECURSIVE JoinTerms(_)
JoinTerms(terms) ==
  IF terms = <<>> THEN <<>>
  ELSE IF Len(terms) = 1 THEN terms[1]
  ELSE JoinTerms(SubSeq(terms, 1, Len(terms) - 1)) \o <<",", " ">> \o terms[Len(terms)]

\* A loop that passes over an entry that does not fit and goes on with the
\* next: the variant of PromptTerms that property C21 has to reject.
RECURSIVE PromptTermsSkipping(_, _, _, _)
PromptTermsSkipping(dictionary, i, terms, currentLength) ==
  IF i > Len(dictionary) THEN terms
  ELSE LET term == TermOf(dictionary[i])
           termWithSeparator == IF terms = <<>> THEN term ELSE <<",", " ">> \o term
       IN IF currentLength + Len(termWithSeparator) <= MAX_PROMPT_LENGTH
            THEN PromptTermsSkipping(dictionary, i + 1, Append(terms, term),
                                     currentLength + Len(termWithSeparator))
            ELSE PromptTermsSkipping(dictionary, i + 1, terms, currentLength)

\* The loop of lines 519-529 from entry i on, with the terms taken so far and
\* their length: it stops at the first entry that does not fit.
RECURSIVE PromptTerms(_, _, _, _)
PromptTerms(dictionary, i, terms, currentLength) ==
  IF i > Len(dictionary) THEN terms
  ELSE LET term == TermOf(dictionary[i])
           termWithSeparator == IF terms = <<>> THEN term ELSE <<",", " ">> \o term
       IN IF currentLength + Len(termWithSeparator) <= MAX_PROMPT_LENGTH
            THEN PromptTerms(dictionary, i + 1, Append(terms, term),
                             currentLength + Len(termWithSeparator))
            ELSE terms

\* Lines 513-532.  undefined (no dictionary) is the empty text: the prompt is
\* only ever tested for truthiness and sliced.
whisperPrompt(dictionary) ==
  IF Len(dictionary) > 0 THEN JoinTerms(PromptTerms(dictionary, 1, <<>>, 0)) ELSE <<>>

(***************************************************************************)
(* The context prompt of a flush (lines 786-811).                          *)
(***************************************************************************)
\* text.slice(-n)
LastChars(text, n) ==
  IF Len(text) <= n THEN text ELSE SubSeq(text, Len(text) - n + 1, Len(text))

\* text.slice(0, n), n >= 0
FirstChars(text, n) ==
  IF Len(text) <= n THEN text ELSE SubSeq(text, 1, n)

\* A tail as long as the text the detector is applied to: the variant of
\* RecentContext that property C32 has to reject.
RecentContextLong(accumulatedTranscript) ==
  IF accumulatedTranscript # <<>>
     /\ ~detectHallucination(LastChars(accumulatedTranscript, HALLUCINATION_CHECK_CHARS))
    THEN LastChars(accumulatedTranscript, HALLUCINATION_CHECK_CHARS)
    ELSE <<>>

\* Lines 791-794: the detector is applied to the last 500 characters, the
\* last 180 are taken.
RecentContext(accumulatedTranscript) ==
  IF accumulatedTranscript # <<>>
     /\ ~detectHallucination(LastChars(accumulatedTranscript, HALLUCINATION_CHECK_CHARS))
    THEN LastChars(accumulatedTranscript, RECENT_CONTEXT_CHARS)
    ELSE <<>>

\* Line 801
Separator(recentContext) == IF recentContext # <<>> THEN <<".", " ">> ELSE <<>>

\* Lines 797-806: the part of ctx.prompt that is added, empty when none is.
DictTerms(recentContext, prompt) ==
  LET spaceLeft == MAX_PROMPT_LENGTH - Len(recentContext)
      availableForDict == spaceLeft - Len(Separator(recentContext))
  IN IF prompt # <<>> /\ spaceLeft > MIN_SPACE_FOR_DICT
       THEN FirstChars(prompt, availableForDict)
       ELSE <<>>

\* Lines 787-811: what is sent to the backend as prompt.
ContextPrompt(accumulatedTranscript, prompt) ==
  LET recentContext == RecentContext(accumulatedTranscript)
      spaceLeft == MAX_PROMPT_LENGTH - Len(recentContext)
      joined == IF prompt # <<>> /\ spaceLeft > MIN_SPACE_FOR_DICT
                  THEN recentContext \o Separator(recentContext)
                       \o DictTerms(recentContext, prompt)
                  ELSE recentContext
  IN LastChars(joined, MAX_PROMPT_LENGTH)

(***************************************************************************)
(* Audio.  A chunk is a run of 16-bit samples that all have the same       *)
(* magnitude 64 * level, and its length is counted in quarter seconds of   *)
(* 16 kHz mono audio (8000 bytes; the page sends chunks of 8192), so that  *)
(* every comparison the code makes on byte totals and on the RMS is exact  *)
(* in integer arithmetic.                                                  *)
(***************************************************************************)
LoudShort == [quarterSeconds |-> 2, level |-> 4]
LoudLong == [quarterSeconds |-> 4, level |-> 4]
SilentLong == [quarterSeconds |-> 4, level |-> 0]
\* Silence shorter than both minimum durations of the flush guard.
SilentShort == [quarterSeconds |-> 1, level |-> 0]

\* The requests the chunks route passes to ingestAudioChunk.
PlainInput == [chunk |-> LoudLong, durationMs |-> 0, isLastChunk |-> FALSE]

\* A chunk of a burst: half a second of speech, no duration reported.
BurstInput == [chunk |-> LoudShort, durationMs |-> 0, isLastChunk |-> FALSE]

IngestInputs ==
  { PlainInput,
    [chunk |-> LoudShort, durationMs |-> 500, isLastChunk |-> FALSE],
    [chunk |-> SilentLong, durationMs |-> 0, isLastChunk |-> FALSE],
    [chunk |-> SilentShort, durationMs |-> 0, isLastChunk |-> FALSE],
    [chunk |-> LoudLong, durationMs |-> 0, isLastChunk |-> TRUE] }

Users == {"u1", "u2"}
Owner == "u1"
SessionIds == {"s1", "s2"}

\* The texts the transcription backend may answer with.
TextHi == <<" ","H","i",".">>
TextLoop == <<"t","h","a","t"," ","t","h","a","t"," ","t","h","a","t"," ","t","h","a","t"," ","t","h","a","t">>
BackendTexts == {TextHi, <<"o","k">>, TextLoop, <<>>}

\* n copies of piece with sep between them.
RECURSIVE Repeated(_, _, _)
Repeated(piece, n, sep) ==
  IF n <= 1 THEN piece ELSE Repeated(piece, n - 1, sep) \o sep \o piece

TextParagraph == <<"I","t"," ","i","s"," ","l","a","t","e","."," ","W","e"," ","g","o"," ","h","o","m","e"," ","n","o","w","!"," ","G","o","o","d"," ","n","i","g","h","t","?">>
TextMixedCase == <<"H","e","l","l","o"," ","y","o","u","."," ","h","e","l","l","o"," ","y","o","u","!"," ","H","E","L","L","O"," ","Y","O","U">>

\* Answers that repeat a word or a sentence up to MaxRun times, next to a
\* paragraph of distinct sentences.
DetectorTexts ==
  {Repeated(w, n, <<" ">>) :
     w \in {<<"a","b">>, <<"t","h","e">>, <<"t","h","a","t">>}, n \in 1..MaxRun}
  \cup {Repeated(p, n, sep) :
          p \in {<<"h","e","l","l","o",".">>, <<"h","e","l","l","o"," ","y","o","u",".">>}, n \in 1..MaxRun, sep \in {<<>>, <<" ">>}}
  \cup {TextParagraph, TextMixedCase}

RECURSIVE SumQuarterSeconds(_)
SumQuarterSeconds(chunks) ==
  IF chunks = <<>> THEN 0
  ELSE Head(chunks).quarterSeconds + SumQuarterSeconds(Tail(chunks))

\* Buffer.concat(chunks).length
TotalAudioBytes(chunks) == SumQuarterSeconds(chunks) * (BYTES_PER_SECOND \div 4)

\* Sum over the samples of (sample / 64)^2, per quarter second of audio.
RECURSIVE SumSquares(_)
SumSquares(chunks) ==
  IF chunks = <<>> THEN 0
  ELSE Head(chunks).quarterSeconds * Head(chunks).level * Head(chunks).level
       + SumSquares(Tail(chunks))

\* A loudness test that never finds the audio below the threshold: the
\* variant of RmsBelow that property C15 has to reject.
RmsNeverBelow(chunks, m) == FALSE

\* calculateBufferRMS(Buffer.concat(chunks)) < MIN_AUDIO_RMS_THRESHOLD * m:
\* sqrt(sum (64 level / 32768)^2 / n) < 0.002 m, squared and cleared of
\* fractions.  An empty buffer gives NaN, which compares false.
RmsBelow(chunks, m) ==
  /\ chunks # <<>>
  /\ 15625 * SumSquares(chunks) < 16384 * m * m * SumQuarterSeconds(chunks)

\* calculateBufferRMS(Buffer.concat(chunks)) > MIN_AUDIO_RMS_THRESHOLD * m
RmsAbove(chunks, m) ==
  /\ chunks # <<>>
  /\ 15625 * SumSquares(chunks) > 16384 * m * m * SumQuarterSeconds(chunks)

(***************************************************************************)
(* State.                                                                  *)
(***************************************************************************)
VARIABLES
  db,            \* the durable transcription rows, by session id
  liveSessions,  \* the registry: session id -> index of its context, 0 if none
  ctxs,          \* the SessionContext objects of the process, in creation order
  proc,          \* per context, the frame of its processAccumulatedAudio call
  writes,        \* the database updates issued so far, with their state
  ops,           \* the calls of ingest, finalize and cancel, with their position
  acceptLog,     \* history: every chunk pushed to a context, in arrival order
  flushLog,      \* history: every ended flush, in the order they ended
  lostChunks,    \* history: ids of the chunks that were in memory at a crash
  restarts,      \* history: how many times the server process has restarted
  budget,        \* the calls and faults the behaviour may still make
  dictionaryEntries,  \* the dictionary entries of the owner, by priority
  client,        \* the dictation page of a browser: workspace, recorder, worklet
  starts         \* per session id, the call of startLiveTranscription creating it

vars == <<db, liveSessions, ctxs, proc, writes, ops, acceptLog, flushLog, lostChunks, restarts,
          budget, dictionaryEntries, client, starts>>

NoRow == [exists |-> FALSE, userId |-> "", status |-> "", content |-> <<>>,
          durationMs |-> 0, completedAt |-> FALSE, dictionarySnapshot |-> <<>>]

\* No call of startLiveTranscription for the session id.  pc is the await
\* the call is at: "settings" (line 493), "count" (line 500), "dictionary"
\* (line 507), "create" (line 534), "orphan" (the
\* create was sent and the process has restarted since) or "done".  title is
\* whether the call was given a title, as long as the call has yet to look
\* at it (line 499).
NoStart == [pc |-> "none", userId |-> "", title |-> FALSE, dictionary |-> <<>>]

NoChunk == [quarterSeconds |-> 0, level |-> 0]

NoRead == [found |-> FALSE, status |-> "", durationMs |-> 0, content |-> <<>>]

\* errors and waits are history: whether each error thrown by the backend
\* call of the flush was a rate limit, and the waits made before its retries.
IdleProc == [active |-> FALSE, phase |-> "idle", chunksToProcess |-> <<>>,
             retryCount |-> 0, waitLeft |-> 0,
             acceptedAtStart |-> 0, transcriptAtStart |-> <<>>,
             errors |-> <<>>, waits |-> <<>>,
             recentContext |-> <<>>, dictTerms |-> <<>>, contextPrompt |-> <<>>]

\* The state as one record, so that the synchronous part of a handler is a
\* composition of functions from state to state.
Machine ==
  [db |-> db, liveSessions |-> liveSessions, ctxs |-> ctxs, proc |-> proc,
   writes |-> writes, ops |-> ops, acceptLog |-> acceptLog, flushLog |-> flushLog]

Becomes(M) ==
  /\ db' = M.db
  /\ liveSessions' = M.liveSessions
  /\ ctxs' = M.ctxs
  /\ proc' = M.proc
  /\ writes' = M.writes
  /\ ops' = M.ops
  /\ acceptLog' = M.acceptLog
  /\ flushLog' = M.flushLog

\* How many calls of each kind and how many faults one behaviour may hold.
\* A fault is a process restart, a failed flush or a rejected update.
\* inputs and texts are the requests and the backend answers it draws from,
\* dictionaries the contents the dictionary of the owner may have, edits the
\* number of times it may be edited, sessions the sessions it may start.
Profile(ingest, finalize, cancel, faults, foreign, inputs, texts) ==
  [ingest |-> ingest, finalize |-> finalize, cancel |-> cancel,
   faults |-> faults, foreign |-> foreign, inputs |-> inputs, texts |-> texts,
   dictionaries |-> {<<>>}, edits |-> 0, sessions |-> {"s1"}]

Profiles ==
  { Profile(MaxIngest, 1, 0, 0, 0, IngestInputs, BackendTexts),
    Profile(MaxIngest, 0, MaxCancel, 0, 0, {PlainInput}, {TextHi}),
    Profile(1, MaxFinalize, MaxCancel, 0, 0, IngestInputs, BackendTexts),
    Profile(2, 1, 0, MaxFaults, 0, IngestInputs, BackendTexts),
    Profile(1, 1, 1, 0, MaxForeign, IngestInputs, BackendTexts),
    Profile(MaxBurst, 0, 0, 0, 0, {BurstInput}, {<<>>}),
    [Profile(1, 1, 0, 0, 0, {PlainInput}, {TextHi})
       EXCEPT !.dictionaries = {<<>>, <<Entry(<<"d", "d">>, <<>>, 60)>>},
              !.edits = MaxEdits] }

\* The dictation page before anything is clicked.  status and
\* transcriptionId are those of the store, which outlives the component.
\* mounts has what every mount of DictationWorkspace made (loading,
\* isStoppingRef, recorderRef, chunkQueue) and the place its startRecording
\* has reached; the last one is the component on the page while mounted
\* holds, and the closures of the earlier ones go on with their own.  calls
\* (of stopRecording, of cancelRecording and of the polling effect behind
\* its await of stop()) and poll are the places the other asynchronous
\* functions have reached.  recorders has every AudioRecorder that was made,
\* with its fields (state, mediaStream, audioContext, worklet), the place of
\* its start(), its worklet processor (connected, writeIndex, flushPosted,
\* port) and the browser (micHeld, contextState).  started, clicks,
\* sessions, posted, produced, delivered, uploaded and the stopped of a
\* recorder are history.
IdleClient ==
  [status |-> "idle", transcriptionId |-> "", mounted |-> TRUE,
   mounts |-> <<[loading |-> FALSE, isStopping |-> FALSE, recorderRef |-> 0,
                 chunkQueue |-> <<>>,
                 startRecording |-> [pc |-> "none", sid |-> "", rec |-> 0]]>>,
   calls |-> <<>>,
   poll |-> [pc |-> "none", sid |-> ""],
   recorders |-> <<>>,
   started |-> 0, clicks |-> 0,
   sessions |-> 0, posted |-> 0, produced |-> 0, delivered |-> <<>>, uploaded |-> {}]

\* The process has just started: no row, no session, no call.
Fresh ==
  /\ client = IdleClient
  /\ starts = [s \in SessionIds |-> NoStart]
  /\ db = [s \in SessionIds |-> NoRow]
  /\ liveSessions = [s \in SessionIds |-> 0]
  /\ ctxs = <<>>
  /\ proc = <<>>
  /\ writes = <<>>
  /\ ops = <<>>
  /\ acceptLog = <<>>
  /\ flushLog = <<>>
  /\ lostChunks = {}
  /\ restarts = 0

Init == Fresh /\ budget \in Profiles /\ dictionaryEntries \in budget.dictionaries

ChunkIds(chunks) == {chunks[i].id : i \in 1..Len(chunks)}

\* The chunks pushed to context c after the first n accepted chunks.
RECURSIVE ArrivedSince(_, _, _)
ArrivedSince(log, c, n) ==
  IF Len(log) <= n THEN <<>>
  ELSE ArrivedSince(SubSeq(log, 1, Len(log) - 1), c, n)
       \o (IF log[Len(log)].ctx = c THEN <<log[Len(log)].chunk>> ELSE <<>>)

(***************************************************************************)
(* Database updates.  Every prisma update is issued in one step and lands  *)
(* (or fails) in a later one; updates in flight land in any order.         *)
(***************************************************************************)
NewWrite(kind, s, u, c, o, content, durationMs) ==
  [kind |-> kind, sid |-> s, user |-> u, ctx |-> c, by |-> o,
   content |-> content, durationMs |-> durationMs, state |-> "inflight"]

IssueWrite(M, w) == [M EXCEPT !.writes = Append(@, w)]

\* A fire-and-forget update: the promise is added to ctx.pendingDbUpdates.
IssueTracked(M, w) ==
  [IssueWrite(M, w) EXCEPT !.ctxs[w.ctx].pendingDbUpdates = @ \cup {Len(M.writes) + 1}]

IsBackground(w) == w.kind \in {"duration", "content"}

\* An update for a lost session that stores the message but leaves the
\* status: the variant of LostSessionRow that property C12 has to reject.
LostSessionRowStreaming(row) ==
  [row EXCEPT !.content = LOST_AUDIO_MESSAGE, !.completedAt = TRUE]

\* Lines 974-978: the data of the update finalizeTranscription makes when the
\* session is not in memory.
LostSessionRow(row) ==
  [row EXCEPT !.status = STATUS_FAILED, !.content = LOST_AUDIO_MESSAGE,
              !.completedAt = TRUE]

\* The row after the update w.
ApplyWrite(row, w) ==
  CASE w.kind = "duration" -> [row EXCEPT !.durationMs = w.durationMs]
    [] w.kind = "content" -> [row EXCEPT !.content = w.content]
    [] w.kind = "final" ->
         [row EXCEPT !.content = w.content, !.status = STATUS_COMPLETED,
                     !.completedAt = TRUE]
    [] w.kind = "failed" ->
         IF row.userId = w.user
           THEN LostSessionRow(row)
           ELSE row
    [] w.kind = "cancel" ->
         IF row.userId = w.user
           THEN [row EXCEPT !.status = STATUS_CANCELLED]
           ELSE row

(***************************************************************************)
(* Session contexts and calls.                                             *)
(***************************************************************************)
\* The SessionContext startLiveTranscription and the recovery of
\* ingestAudioChunk build.  sinceLastTranscription is Date.now() minus
\* ctx.lastTranscriptionTime, kept up to TRANSCRIPTION_INTERVAL_MS.
NewCtx(s, u, durationMs, transcript) ==
  [transcriptionId |-> s, userId |-> u, finalized |-> FALSE, audioChunks |-> <<>>,
   totalDurationMs |-> durationMs, sinceLastTranscription |-> 0,
   accumulatedTranscript |-> transcript, isProcessing |-> FALSE,
   processingChunkCount |-> 0, lastChunkRMS |-> 0, wasSilent |-> FALSE,
   pendingDbUpdates |-> {}, prompt |-> <<>>]

AddCtx(M, ctx) ==
  [M EXCEPT !.ctxs = Append(@, ctx), !.proc = Append(@, IdleProc)]

NewOp(kind, s, u) ==
  [kind |-> kind, sid |-> s, user |-> u, pc |-> "call", result |-> "pending",
   fin |-> "none", ctx |-> 0, chunk |-> NoChunk, durationMs |-> 0,
   isLastChunk |-> FALSE, read |-> NoRead, awaiting |-> {}, write |-> 0,
   afterCompleted |-> FALSE, afterCancel |-> FALSE, statusAtCall |-> "",
   pendingAtCall |-> {}, absentAtCall |-> FALSE]

\* The call o returns (result "ok") or throws (the name of the error).
Return(M, o, result, fin) ==
  [M EXCEPT !.ops[o] = [@ EXCEPT !.pc = "done", !.result = result, !.fin = fin,
                                 !.ctx = 0, !.chunk = NoChunk, !.durationMs = 0,
                                 !.read = NoRead, !.awaiting = {}, !.write = 0]]

\* Some finalize of session s has written COMPLETED and returned.
FinalizeReturnedOk(M, s) ==
  \E i \in 1..Len(M.ops) :
    /\ M.ops[i].sid = s /\ M.ops[i].pc = "done"
    /\ M.ops[i].result = "ok" /\ M.ops[i].fin = "completed"

\* Some cancel of session s by its owner has returned.
CancelReturned(M, s) ==
  \E i \in 1..Len(M.ops) :
    /\ M.ops[i].sid = s /\ M.ops[i].pc = "done" /\ M.ops[i].kind = "cancel"
    /\ M.ops[i].result = "ok" /\ M.ops[i].user = M.db[s].userId

(***************************************************************************)
(* processAccumulatedAudio, up to its first await: the guards, the         *)
(* snapshot of ctx.audioChunks and the start of the backend call.          *)
(***************************************************************************)
\* History: the flush of context c that took M to N ends with outcome.
FlushEntry(M, N, c, chunks, outcome, text, acceptedAtStart, transcriptAtStart, retryCount) ==
  [sid |-> M.ctxs[c].transcriptionId, ctx |-> c, chunks |-> chunks,
   outcome |-> outcome, text |-> text, retryCount |-> retryCount,
   acceptedAtStart |-> acceptedAtStart,
   errors |-> IF outcome \in {"tooShort", "silent"} THEN <<>> ELSE M.proc[c].errors,
   waits |-> IF outcome \in {"tooShort", "silent"} THEN <<>> ELSE M.proc[c].waits,
   during |-> ArrivedSince(M.acceptLog, c, acceptedAtStart),
   pendingAfter |-> N.ctxs[c].audioChunks,
   transcriptBefore |-> transcriptAtStart,
   transcriptAfter |-> N.ctxs[c].accumulatedTranscript,
   statusBefore |-> IF outcome = "failed" THEN M.db[M.ctxs[c].transcriptionId].status ELSE "",
   statusAfter |-> IF outcome = "failed" THEN N.db[M.ctxs[c].transcriptionId].status ELSE ""]

\* A flush that ended before its first await.
LogGuard(M, N, c, outcome) ==
  [N EXCEPT !.flushLog =
     Append(@, FlushEntry(M, N, c, M.ctxs[c].audioChunks, outcome, <<>>,
                          Len(M.acceptLog), M.ctxs[c].accumulatedTranscript, 0))]

\* A flush that ended after its backend call.
LogFlush(M, N, c, outcome, text, retryCount) ==
  [N EXCEPT !.flushLog =
     Append(@, FlushEntry(M, N, c, M.proc[c].chunksToProcess, outcome, text,
                          M.proc[c].acceptedAtStart, M.proc[c].transcriptAtStart,
                          retryCount))]

\* A snapshot that is not followed by the clearing of ctx.audioChunks: the
\* variant of ClearedChunks that property C10 has to reject.
KeptChunks(audioChunks) == audioChunks

\* Line 742: ctx.audioChunks = [] once the snapshot is taken.
ClearedChunks(audioChunks) == <<>>

\* A guard that drops the snapshot and restarts the interval, as the silence
\* floor does: the variant of SkippedCtx that property C26 has to reject.
SkippedCtxDropping(ctx, chunksToProcess) ==
  [ctx EXCEPT !.audioChunks = <<>>, !.sinceLastTranscription = 0,
              !.isProcessing = FALSE, !.processingChunkCount = 0]

\* Lines 758-765: the context after the minimum-audio guard has stopped the
\* flush; the snapshot is put back.
SkippedCtx(ctx, chunksToProcess) ==
  [ctx EXCEPT !.audioChunks = chunksToProcess \o ClearedChunks(ctx.audioChunks),
              !.isProcessing = FALSE, !.processingChunkCount = 0]

processAccumulatedAudio(M, c) ==
  LET ctx == M.ctxs[c]
      chunksToProcess == ctx.audioChunks
      minBytes == MIN_AUDIO_DURATION_SECONDS * BYTES_PER_SECOND
      minBytesAfterPause == BYTES_PER_SECOND \div 2
      requiredBytes == IF ctx.wasSilent THEN minBytesAfterPause ELSE minBytes
  IN
  IF ctx.isProcessing \/ ctx.audioChunks = <<>> THEN M
  ELSE IF TotalAudioBytes(chunksToProcess) < requiredBytes
    THEN \* too short: the snapshot is put back
         LogGuard(M, [M EXCEPT !.ctxs[c] = SkippedCtx(ctx, chunksToProcess)],
                  c, "tooShort")
  ELSE IF RmsBelow(chunksToProcess, 1)
    THEN \* completely silent: the snapshot is dropped
         LogGuard(M, [M EXCEPT !.ctxs[c].audioChunks = ClearedChunks(ctx.audioChunks),
                               !.ctxs[c].sinceLastTranscription = 0,
                               !.ctxs[c].isProcessing = FALSE,
                               !.ctxs[c].processingChunkCount = 0],
                  c, "silent")
  ELSE [M EXCEPT !.ctxs[c].isProcessing = TRUE,
                 !.ctxs[c].processingChunkCount = Len(chunksToProcess),
                 !.ctxs[c].audioChunks = ClearedChunks(ctx.audioChunks),
                 !.proc[c] = [active |-> TRUE, phase |-> "call",
                              chunksToProcess |-> chunksToProcess,
                              retryCount |-> 0, waitLeft |-> 0,
                              acceptedAtStart |-> Len(M.acceptLog),
                              transcriptAtStart |-> ctx.accumulatedTranscript,
                              errors |-> <<>>, waits |-> <<>>,
                              recentContext |-> RecentContext(ctx.accumulatedTranscript),
                              dictTerms |->
                                DictTerms(RecentContext(ctx.accumulatedTranscript),
                                          ctx.prompt),
                              contextPrompt |->
                                ContextPrompt(ctx.accumulatedTranscript, ctx.prompt)]]

\* The append of a new segment to ctx.accumulatedTranscript (lines 866-876):
\* both arms of the conditional put a space before the segment.
AppendSegment(transcript, newText) ==
  IF transcript # <<>>
    THEN LET trimmed == Trim(transcript)
             needsSpace ==
               ~(trimmed # <<>> /\ trimmed[Len(trimmed)] \in {".", "!", "?", ",", ";", ":"})
         IN IF needsSpace THEN transcript \o <<" ">> \o newText
                          ELSE transcript \o <<" ">> \o newText
    ELSE newText

\* A restore that puts the snapshot behind what arrived since: the variant of
\* RestoreChunks that property C9 has to reject.
RestoreChunksBehind(chunksToProcess, audioChunks) == audioChunks \o chunksToProcess

\* The catch block: the snapshot goes back in front of what arrived since.
RestoreChunks(chunksToProcess, audioChunks) == chunksToProcess \o audioChunks

\* An end of flush that leaves isProcessing set: the variant of EndFlush that
\* property C28 has to reject.
EndFlushHolding(M, c) ==
  [M EXCEPT !.proc[c] = IdleProc]

\* The finally block.
EndFlush(M, c) ==
  [M EXCEPT !.ctxs[c].isProcessing = FALSE,
            !.ctxs[c].processingChunkCount = 0,
            !.proc[c] = IdleProc]

\* The backend call of context c has thrown for the retryCount-th time and is
\* not retried.
FlushFailed(M, c, retryCount) ==
  LET p == M.proc[c] IN
  LogFlush(M, EndFlush([M EXCEPT !.ctxs[c].audioChunks =
                                   RestoreChunks(p.chunksToProcess, @)], c),
           c, "failed", <<>>, retryCount)

\* The backend call of context c has answered with text.
FlushAnswered(M, c, text) ==
  LET p == M.proc[c]
      ctx == M.ctxs[c]
      newText == Trim(text)
  IN
  IF newText # <<>> /\ detectHallucination(newText)
    THEN LogFlush(M, EndFlush([M EXCEPT !.ctxs[c].sinceLastTranscription = 0], c),
                  c, "hallucination", newText, p.retryCount)
  ELSE IF newText # <<>>
    THEN LET transcript == AppendSegment(ctx.accumulatedTranscript, newText)
             M1 == [M EXCEPT !.ctxs[c].accumulatedTranscript = transcript]
             M2 == IssueTracked(M1, NewWrite("content", ctx.transcriptionId, ctx.userId,
                                             c, 0, transcript, 0))
         IN LogFlush(M, EndFlush([M2 EXCEPT !.ctxs[c].sinceLastTranscription = 0], c),
                     c, "text", newText, p.retryCount)
  ELSE LogFlush(M, EndFlush([M EXCEPT !.ctxs[c].sinceLastTranscription = 0], c),
                c, "empty", <<>>, p.retryCount)

(***************************************************************************)
(* finalizeTranscription, slice by slice.  o is the index of the call.     *)
(***************************************************************************)
\* A finalize that throws instead of completing when audio is left pending:
\* the variant of FinalizeWrite that property C17 has to reject.
FinalizeWriteIfDrained(M, o) ==
  LET op == M.ops[o]
      ctx == M.ctxs[op.ctx]
      M1 == IssueWrite(M, NewWrite("final", op.sid, op.user, 0, o,
                                   ctx.accumulatedTranscript, 0))
  IN IF ctx.audioChunks # <<>>
       THEN Return(M, o, "Internal", "none")
       ELSE [M1 EXCEPT !.ops[o].pc = "wait_final", !.ops[o].write = Len(M1.writes)]

\* Lines 1013-1026: the final update is issued and awaited.
FinalizeWrite(M, o) ==
  LET op == M.ops[o]
      ctx == M.ctxs[op.ctx]
      finalTranscript == ctx.accumulatedTranscript
      M1 == IssueWrite(M, NewWrite("final", op.sid, op.user, 0, o, finalTranscript, 0))
  IN [M1 EXCEPT !.ops[o].pc = "wait_final", !.ops[o].write = Len(M1.writes)]

\* Lines 1004-1011: the remaining chunks are processed, and awaited if a
\* backend call was started for them.
FinalizeFlush(M, o) ==
  LET c == M.ops[o].ctx
      ctx == M.ctxs[c]
  IN
  IF Len(ctx.audioChunks) > 0 /\ TotalAudioBytes(ctx.audioChunks) > 0
    THEN LET M1 == processAccumulatedAudio(M, c) IN
         IF ~ctx.isProcessing /\ M1.proc[c].active
           THEN [M1 EXCEPT !.ops[o].pc = "wait_flush"]
           ELSE FinalizeWrite(M1, o)
    ELSE FinalizeWrite(M, o)

\* Lines 964-1002: from the call to the first await.
finalizeTranscription(M, o) ==
  LET op == M.ops[o]
      c == M.liveSessions[op.sid]
  IN
  IF c = 0
    THEN LET M1 == IssueWrite(M, NewWrite("failed", op.sid, op.user, 0, o, <<>>, 0))
         IN [M1 EXCEPT !.ops[o].pc = "wait_failed", !.ops[o].write = Len(M1.writes)]
  ELSE IF M.ctxs[c].userId # op.user THEN Return(M, o, "NotFound", "none")
  ELSE IF M.ctxs[c].finalized THEN Return(M, o, "ok", "skipped")
  ELSE LET M1 == [M EXCEPT !.ctxs[c].finalized = TRUE,
                           !.ops[o].ctx = c,
                           !.ops[o].pendingAtCall = ChunkIds(M.ctxs[c].audioChunks)]
       IN IF M.ctxs[c].pendingDbUpdates # {}
            THEN [M1 EXCEPT !.ops[o].pc = "wait_updates",
                            !.ops[o].awaiting = M.ctxs[c].pendingDbUpdates]
            ELSE FinalizeFlush(M1, o)

\* An ingest that awaits the flush in flight before it returns: the variant
\* of IngestReturns that property C13 has to reject.
IngestReturnsAfterFlush(M, o, c) ==
  IF M.proc[c].active
    THEN [M EXCEPT !.ops[o].pc = "wait_flush", !.ops[o].ctx = c]
    ELSE Return(M, o, "ok", "none")

\* Lines 719-728: the flush is not awaited; without isLastChunk the call
\* returns.
IngestReturns(M, o, c) == Return(M, o, "ok", "none")

(***************************************************************************)
(* ingestAudioChunk from line 638 on, with ctx the context it found or     *)
(* restored (0 if none).                                                   *)
(***************************************************************************)
IngestBody(M, o, c) ==
  LET op == M.ops[o] IN
  IF c = 0 \/ M.ctxs[c].userId # op.user THEN Return(M, o, "NotFound", "none")
  ELSE IF M.ctxs[c].finalized THEN Return(M, o, "BadRequest", "none")
  ELSE
    LET ctx == M.ctxs[c]
        audioBuffer == [id |-> Len(M.acceptLog) + 1, quarterSeconds |-> op.chunk.quarterSeconds,
                        level |-> op.chunk.level]
        speechResumed == ctx.wasSilent /\ RmsAbove(<<audioBuffer>>, 3)
        \* lines 648-664
        M1 == [M EXCEPT !.ctxs[c].audioChunks = Append(@, audioBuffer),
                        !.ctxs[c].lastChunkRMS = audioBuffer.level,
                        !.ctxs[c].wasSilent = RmsBelow(<<audioBuffer>>, 2),
                        !.acceptLog = Append(@, [sid |-> op.sid, ctx |-> c, by |-> o,
                                                chunk |-> audioBuffer,
                                                statusAtCall |-> op.statusAtCall,
                                                status |-> M.db[op.sid].status])]
        \* lines 671-697
        total == ctx.totalDurationMs + op.durationMs
        M2 == IF op.durationMs # 0
                THEN IssueTracked([M1 EXCEPT !.ctxs[c].totalDurationMs = total],
                                  NewWrite("duration", op.sid, op.user, c, 0, <<>>, total))
                ELSE M1
        \* lines 699-722
        shouldProcessNow == ctx.sinceLastTranscription >= TRANSCRIPTION_INTERVAL_MS
        hasManyChunks == Len(M2.ctxs[c].audioChunks) >= MANY_CHUNKS
        shouldProcessResume == speechResumed /\ Len(M2.ctxs[c].audioChunks) >= RESUME_CHUNKS
        M3 == IF /\ (shouldProcessNow \/ hasManyChunks \/ shouldProcessResume)
                 /\ ~M2.ctxs[c].isProcessing
                 /\ Len(M2.ctxs[c].audioChunks) > 0
                THEN processAccumulatedAudio(M2, c)
                ELSE M2
    IN \* lines 724-727
       IF op.isLastChunk THEN finalizeTranscription(M3, o)
                         ELSE IngestReturns(M3, o, c)

\* A context rebuilt with an empty transcript: the variant of RestoredCtx that
\* property C11 has to reject.
RestoredCtxBlank(op) ==
  NewCtx(op.sid, op.user, op.read.durationMs, <<>>)

\* Lines 617-633: the context rebuilt from the row that was read.
RestoredCtx(op) ==
  NewCtx(op.sid, op.user, op.read.durationMs, op.read.content)

(***************************************************************************)
(* Continuations.                                                          *)
(***************************************************************************)
\* A finalize that throws when one of the updates it waited for was rejected,
\* as Promise.all would: the variant of UpdatesSettled that property C29 has
\* to reject.
UpdatesAllOrThrow(M, o) ==
  IF \E w \in M.ops[o].awaiting : M.writes[w].state = "failed"
    THEN Return(M, o, "Internal", "none")
    ELSE FinalizeFlush([M EXCEPT !.ctxs[M.ops[o].ctx].pendingDbUpdates = {}], o)

\* Lines 999-1002: Promise.allSettled has resolved, whatever became of the
\* updates; the set is cleared and finalize goes on.
UpdatesSettled(M, o) ==
  FinalizeFlush([M EXCEPT !.ctxs[M.ops[o].ctx].pendingDbUpdates = {}], o)

\* A call that is never resumed after its await: the variant of Continue that
\* property C37 has to reject.
AwaitForever(M, o) == M

\* The continuation of call o after the event it awaits, if that has happened:
\*   wait_updates  Promise.allSettled(pendingDbUpdates) resolved (lines 999-1001)
\*   wait_flush    the awaited processAccumulatedAudio ended (line 1010)
\*   wait_final    the final update settled (lines 1027-1031)
\*   wait_failed   the update to FAILED settled (lines 972-981)
\*   wait_cancel   the update to CANCELLED settled (lines 1044-1047)
Continue(M, o) ==
  LET op == M.ops[o]
      settled == op.write # 0 /\ M.writes[op.write].state # "inflight"
      rejected == op.write # 0 /\ M.writes[op.write].state = "failed"
  IN
  IF op.pc = "wait_updates" /\ \A w \in op.awaiting : M.writes[w].state # "inflight"
    THEN UpdatesSettled(M, o)
  ELSE IF op.pc = "wait_flush" /\ ~M.proc[op.ctx].active
    THEN FinalizeWrite(M, o)
  ELSE IF op.pc = "wait_final" /\ settled
    THEN IF rejected THEN Return(M, o, "Internal", "none")
         ELSE Return([M EXCEPT !.liveSessions[op.sid] = 0], o, "ok", "completed")
  ELSE IF op.pc = "wait_failed" /\ settled
    THEN IF rejected THEN Return(M, o, "Internal", "none")
         ELSE Return(M, o, "NotFound", "none")
  ELSE IF op.pc = "wait_cancel" /\ settled
    THEN IF rejected THEN Return(M, o, "Internal", "none")
         ELSE Return(M, o, "ok", "none")
  ELSE M

\* The microtasks that follow an event: every call whose awaited promise has
\* settled runs to its next await, before any other event is handled.
RECURSIVE RunContinuations(_, _)
RunContinuations(M, o) ==
  IF o > Len(M.ops) THEN M ELSE RunContinuations(Continue(M, o), o + 1)

(***************************************************************************)
(* Actions.                                                                *)
(***************************************************************************)
\* A call of startLiveTranscription by user u, with or without a title, up
\* to the await of the settings read (lines 488-493).  s is the id that the
\* database will give the row.
StartCall(s, u, title) ==
  /\ s \in budget.sessions
  /\ ~db[s].exists /\ starts[s].pc = "none"
  /\ starts' = [starts EXCEPT ![s] = [pc |-> "settings", userId |-> u, title |-> title,
                                      dictionary |-> <<>>]]
  /\ UNCHANGED <<db, liveSessions, ctxs, proc, writes, ops, acceptLog, flushLog,
                 lostChunks, restarts, budget, dictionaryEntries, client>>

\* The database answers findUnique of the settings (lines 493-507): without
\* a title the rows of the user are counted (line 500), with one the
\* dictionary read is sent.  Nothing the model holds depends on the settings.
StartSettingsRead(s) ==
  /\ starts[s].pc = "settings"
  /\ starts' = [starts EXCEPT ![s].pc = IF starts[s].title THEN "dictionary" ELSE "count",
                              ![s].title = FALSE]
  /\ UNCHANGED <<db, liveSessions, ctxs, proc, writes, ops, acceptLog, flushLog,
                 lostChunks, restarts, budget, dictionaryEntries, client>>

\* The database answers the count (lines 500-507): the title is made from
\* it and the dictionary read is sent.
StartCountRead(s) ==
  /\ starts[s].pc = "count"
  /\ starts' = [starts EXCEPT ![s].pc = "dictionary"]
  /\ UNCHANGED <<db, liveSessions, ctxs, proc, writes, ops, acceptLog, flushLog,
                 lostChunks, restarts, budget, dictionaryEntries, client>>

\* The database answers findMany({where: {userId}}) (lines 507-510) with the
\* entries of the caller as they are now; the prompt is built and the create
\* is sent (lines 513-534).  dictionaryEntries are the entries of the owner;
\* the other users have none.
StartDictionaryRead(s) ==
  /\ starts[s].pc = "dictionary"
  /\ starts' = [starts EXCEPT ![s].pc = "create",
                              ![s].dictionary = IF starts[s].userId = Owner
                                                  THEN dictionaryEntries ELSE <<>>]
  /\ UNCHANGED <<db, liveSessions, ctxs, proc, writes, ops, acceptLog, flushLog,
                 lostChunks, restarts, budget, dictionaryEntries, client>>

\* The database answers the create (lines 534-587): the row exists, with the
\* dictionary that was read as its snapshot, and the context is registered
\* with the prompt built from it.  After a restart of the process the row is
\* created all the same, and nothing is registered.
StartCreated(s) ==
  /\ starts[s].pc \in {"create", "orphan"}
  /\ LET u == starts[s].userId
         dictionary == starts[s].dictionary
         M1 == [Machine EXCEPT
                  !.db[s] = [exists |-> TRUE, userId |-> u, status |-> STATUS_STREAMING,
                             content |-> <<>>, durationMs |-> 0, completedAt |-> FALSE,
                             dictionarySnapshot |-> dictionary]]
         M2 == AddCtx(M1, [NewCtx(s, u, 0, <<>>) EXCEPT
                             !.prompt = whisperPrompt(dictionary)])
     IN IF starts[s].pc = "orphan" THEN Becomes(M1)
        ELSE Becomes([M2 EXCEPT !.liveSessions[s] = Len(M2.ctxs)])
  /\ starts' = [starts EXCEPT ![s] = [NoStart EXCEPT !.pc = "done"]]
  /\ UNCHANGED <<lostChunks, restarts, budget, dictionaryEntries, client>>

\* A caller other than the owner spends the budget of foreign calls.
Foreign(u) == IF u = Owner THEN 0 ELSE 1

\* A call of ingestAudioChunk, up to its first await.
IngestCall(s, u, in) ==
  /\ db[s].exists
  /\ budget.ingest > 0
  /\ budget.foreign >= Foreign(u)
  /\ LET o == Len(ops) + 1
         op == [NewOp("ingest", s, u) EXCEPT
                  !.chunk = in.chunk, !.durationMs = in.durationMs,
                  !.isLastChunk = in.isLastChunk,
                  !.afterCompleted = FinalizeReturnedOk(Machine, s),
                  !.afterCancel = CancelReturned(Machine, s),
                  !.statusAtCall = db[s].status,
                  !.absentAtCall = (liveSessions[s] = 0)]
         M1 == [Machine EXCEPT !.ops = Append(@, op)]
         c == liveSessions[s]
     IN IF c = 0
          THEN \* findUnique({id, userId}) is sent and awaited (line 610)
               Becomes([M1 EXCEPT !.ops[o].pc = "restore"])
          ELSE Becomes(IngestBody(M1, o, c))
  /\ budget' = [budget EXCEPT !.ingest = @ - 1, !.foreign = @ - Foreign(u)]
  /\ UNCHANGED <<lostChunks, restarts, dictionaryEntries, client, starts>>

\* The database answers findUnique({id, userId}) with the row as it is now
\* (lines 610-636): the context is restored if the row is STREAMING.
IngestRestored(o) ==
  /\ ops[o].pc = "restore"
  /\ LET row == db[ops[o].sid]
         M0 == [Machine EXCEPT
                  !.ops[o].read = IF row.exists /\ row.userId = ops[o].user
                                    THEN [found |-> TRUE, status |-> row.status,
                                          durationMs |-> row.durationMs,
                                          content |-> row.content]
                                    ELSE NoRead]
         op == M0.ops[o] IN
     IF op.read.found /\ op.read.status = STATUS_STREAMING
       THEN LET M1 == AddCtx(M0, RestoredCtx(op))
                M2 == [M1 EXCEPT !.liveSessions[op.sid] = Len(M1.ctxs)]
            IN Becomes(IngestBody(M2, o, Len(M1.ctxs)))
       ELSE Becomes(IngestBody(M0, o, 0))
  /\ UNCHANGED <<lostChunks, restarts, budget, dictionaryEntries, client, starts>>

\* A call of finalizeTranscription (the complete route), up to its first await.
FinalizeCall(s, u) ==
  /\ db[s].exists
  /\ budget.finalize > 0
  /\ budget.foreign >= Foreign(u)
  /\ LET o == Len(ops) + 1
         op == [NewOp("finalize", s, u) EXCEPT
                  !.afterCompleted = FinalizeReturnedOk(Machine, s),
                  !.afterCancel = CancelReturned(Machine, s),
                  !.statusAtCall = db[s].status]
     IN Becomes(finalizeTranscription([Machine EXCEPT !.ops = Append(@, op)], o))
  /\ budget' = [budget EXCEPT !.finalize = @ - 1, !.foreign = @ - Foreign(u)]
  /\ UNCHANGED <<lostChunks, restarts, dictionaryEntries, client, starts>>

\* A call of cancelTranscription, up to its await (lines 1038-1047).
CancelCall(s, u) ==
  /\ db[s].exists
  /\ budget.cancel > 0
  /\ budget.foreign >= Foreign(u)
  /\ LET o == Len(ops) + 1
         op == [NewOp("cancel", s, u) EXCEPT
                  !.afterCompleted = FinalizeReturnedOk(Machine, s),
                  !.afterCancel = CancelReturned(Machine, s),
                  !.statusAtCall = db[s].status]
         c == liveSessions[s]
         M1 == [Machine EXCEPT !.ops = Append(@, op)]
         M2 == IF c # 0 /\ ctxs[c].userId = u
                 THEN [M1 EXCEPT !.ctxs[c].finalized = TRUE, !.liveSessions[s] = 0]
                 ELSE M1
         M3 == IssueWrite(M2, NewWrite("cancel", s, u, 0, o, <<>>, 0))
     IN Becomes([M3 EXCEPT !.ops[o].pc = "wait_cancel", !.ops[o].write = Len(M3.writes)])
  /\ budget' = [budget EXCEPT !.cancel = @ - 1, !.foreign = @ - Foreign(u)]
  /\ UNCHANGED <<lostChunks, restarts, dictionaryEntries, client, starts>>

\* The transcription backend answers the call of context c (lines 822-830).
BackendAnswer(c, text) ==
  /\ proc[c].active /\ proc[c].phase = "call"
  /\ Becomes(RunContinuations(FlushAnswered(Machine, c, text), 1))
  /\ UNCHANGED <<lostChunks, restarts, budget, dictionaryEntries, client, starts>>

\* A wait that is the same before every retry: the variant of BackoffMs that
\* property C24 has to reject.
BackoffFixed(retryCount) == 2 * 1000

\* The wait before retry number retryCount (line 839).
BackoffMs(retryCount) == (2 ^ retryCount) * 1000

\* The backend call of context c throws (lines 831-845).  The first error of
\* a flush spends the fault budget, the errors of its retries do not.
BackendError(c, rateLimited) ==
  /\ proc[c].active /\ proc[c].phase = "call"
  /\ proc[c].retryCount > 0 \/ budget.faults > 0
  /\ LET retryCount == proc[c].retryCount + 1
         M1 == [Machine EXCEPT !.proc[c].errors = Append(@, rateLimited)]
     IN
     IF retryCount > maxRetries \/ ~rateLimited
       THEN Becomes(RunContinuations(FlushFailed(M1, c, retryCount), 1))
       ELSE Becomes([M1 EXCEPT !.proc[c].retryCount = retryCount,
                               !.proc[c].phase = "backoff",
                               !.proc[c].waitLeft = BackoffMs(retryCount),
                               !.proc[c].waits = Append(@, BackoffMs(retryCount))])
  /\ budget' = [budget EXCEPT !.faults = IF proc[c].retryCount > 0 THEN @ ELSE @ - 1]
  /\ UNCHANGED <<lostChunks, restarts, dictionaryEntries, client, starts>>

\* The backoff timer of context c fires and the call is made again.
BackoffElapsed(c) ==
  /\ proc[c].active /\ proc[c].phase = "backoff" /\ proc[c].waitLeft = 0
  /\ Becomes([Machine EXCEPT !.proc[c].phase = "call"])
  /\ UNCHANGED <<lostChunks, restarts, budget, dictionaryEntries, client, starts>>

\* TickMs of wall-clock time pass.
Tick ==
  /\ \/ \E c \in 1..Len(ctxs) : ctxs[c].sinceLastTranscription < TRANSCRIPTION_INTERVAL_MS
     \/ \E c \in 1..Len(proc) : proc[c].waitLeft > 0
  /\ ctxs' = [c \in 1..Len(ctxs) |->
                [ctxs[c] EXCEPT !.sinceLastTranscription =
                                  IF @ + TickMs < TRANSCRIPTION_INTERVAL_MS
                                    THEN @ + TickMs ELSE TRANSCRIPTION_INTERVAL_MS]]
  /\ proc' = [c \in 1..Len(proc) |->
                [proc[c] EXCEPT !.waitLeft = IF @ > TickMs THEN @ - TickMs ELSE 0]]
  /\ UNCHANGED <<db, liveSessions, writes, ops, acceptLog, flushLog, lostChunks, restarts, budget,
               dictionaryEntries, client, starts>>

\* The settle callbacks of update w: a background update leaves
\* pendingDbUpdates (lines 682-687 and 889-896).
Settled(M, w) ==
  IF IsBackground(M.writes[w]) /\ M.writes[w].ctx # 0
    THEN [M EXCEPT !.ctxs[M.writes[w].ctx].pendingDbUpdates = @ \ {w}]
    ELSE M

\* An update that reaches every row of the user who made it: the variant of
\* UpdatedRows that property C34 has to reject.
UpdatedRowsOfUser(rows, w) ==
  [s \in DOMAIN rows |->
     IF rows[s].exists /\ rows[s].userId = w.user THEN ApplyWrite(rows[s], w)
     ELSE rows[s]]

\* prisma.transcription.update({ where: { id } }): one row is written.
UpdatedRows(rows, w) == [rows EXCEPT ![w.sid] = ApplyWrite(@, w)]

\* The update w reaches the database.
WriteLands(w) ==
  /\ writes[w].state = "inflight"
  /\ LET M1 == [Machine EXCEPT !.db = UpdatedRows(@, writes[w]),
                               !.writes[w].state = "ok"]
     IN Becomes(RunContinuations(Settled(M1, w), 1))
  /\ UNCHANGED <<lostChunks, restarts, budget, dictionaryEntries, client, starts>>

\* The update w is rejected by the database.
WriteFails(w) ==
  /\ writes[w].state = "inflight"
  /\ budget.faults > 0
  /\ LET M1 == [Machine EXCEPT !.writes[w].state = "failed"]
     IN Becomes(RunContinuations(Settled(M1, w), 1))
  /\ budget' = [budget EXCEPT !.faults = @ - 1]
  /\ UNCHANGED <<lostChunks, restarts, dictionaryEntries, client, starts>>

\* The chunk ids held in memory: pending or in the snapshot of a flush.
RECURSIVE InMemory(_, _, _)
InMemory(cs, ps, c) ==
  IF c > Len(cs) THEN {}
  ELSE ChunkIds(cs[c].audioChunks) \cup ChunkIds(ps[c].chunksToProcess)
       \cup InMemory(cs, ps, c + 1)

\* The server process restarts, at any time: the registry, the contexts and
\* every call in progress are gone; updates and creates already sent to the
\* database stay in flight.
Crash ==
  /\ budget.faults > 0
  /\ liveSessions' = [s \in SessionIds |-> 0]
  /\ ctxs' = <<>>
  /\ proc' = <<>>
  /\ ops' = [o \in 1..Len(ops) |->
               IF ops[o].pc = "done" THEN ops[o]
               ELSE Return(Machine, o, "lost", "none").ops[o]]
  /\ writes' = [w \in 1..Len(writes) |-> [writes[w] EXCEPT !.ctx = 0]]
  /\ lostChunks' = lostChunks \cup InMemory(ctxs, proc, 1)
  /\ restarts' = restarts + 1
  /\ budget' = [budget EXCEPT !.faults = @ - 1]
  /\ starts' = [s \in SessionIds |->
                  IF starts[s].pc \in {"settings", "count", "dictionary"} THEN NoStart
                  ELSE IF starts[s].pc = "create" THEN [starts[s] EXCEPT !.pc = "orphan"]
                  ELSE starts[s]]
  /\ UNCHANGED <<db, acceptLog, flushLog, dictionaryEntries, client>>

\* The owner adds, edits or deletes entries: the dictionary becomes another.
DictionaryEdit(dictionary) ==
  /\ budget.edits > 0
  /\ dictionary # dictionaryEntries
  /\ dictionaryEntries' = dictionary
  /\ budget' = [budget EXCEPT !.edits = @ - 1]
  /\ UNCHANGED <<db, liveSessions, ctxs, proc, writes, ops, acceptLog, flushLog,
                 lostChunks, restarts, client, starts>>

Next ==
  \/ \E s \in SessionIds, title \in BOOLEAN : StartCall(s, Owner, title)
  \/ \E s \in SessionIds : StartSettingsRead(s)
  \/ \E s \in SessionIds : StartCountRead(s)
  \/ \E s \in SessionIds : StartDictionaryRead(s)
  \/ \E s \in SessionIds : StartCreated(s)
  \/ \E s \in SessionIds, u \in Users, in \in budget.inputs : IngestCall(s, u, in)
  \/ \E o \in 1..Len(ops) : IngestRestored(o)
  \/ \E s \in SessionIds, u \in Users : FinalizeCall(s, u)
  \/ \E s \in SessionIds, u \in Users : CancelCall(s, u)
  \/ \E c \in 1..Len(proc), text \in budget.texts : BackendAnswer(c, text)
  \/ \E c \in 1..Len(proc), rateLimited \in BOOLEAN : BackendError(c, rateLimited)
  \/ \E c \in 1..Len(proc) : BackoffElapsed(c)
  \/ Tick
  \/ \E w \in 1..Len(writes) : WriteLands(w)
  \/ \E w \in 1..Len(writes) : WriteFails(w)
  \/ Crash
  \/ \E dictionary \in budget.dictionaries : DictionaryEdit(dictionary)

Spec == Init /\ [][Next]_vars

(***************************************************************************)
(* Sessions are started with every dictionary of the model, and nothing    *)
(* else is called.                                                         *)
(***************************************************************************)
PromptProfile ==
  [Profile(0, 0, 0, 0, 0, {}, {}) EXCEPT !.dictionaries = Dictionaries]

PromptInit ==
  Fresh /\ budget = PromptProfile /\ dictionaryEntries \in budget.dictionaries

PromptNext ==
  \/ \E s \in SessionIds, title \in BOOLEAN : StartCall(s, Owner, title)
  \/ \E s \in SessionIds : StartSettingsRead(s)
  \/ \E s \in SessionIds : StartCountRead(s)
  \/ \E s \in SessionIds : StartDictionaryRead(s)
  \/ \E s \in SessionIds : StartCreated(s)
  \/ Tick

PromptSpec == PromptInit /\ [][PromptNext]_vars

(***************************************************************************)
(* A session is started and its flushes are answered by the backend with   *)
(* every text of DetectorTexts: detectHallucination is applied to each.    *)
(***************************************************************************)
DetectorProfile == Profile(2, 0, 0, 0, 0, {PlainInput}, DetectorTexts)

DetectorInit ==
  Fresh /\ budget = DetectorProfile /\ dictionaryEntries \in budget.dictionaries

DetectorNext ==
  \/ \E s \in SessionIds, title \in BOOLEAN : StartCall(s, Owner, title)
  \/ \E s \in SessionIds : StartSettingsRead(s)
  \/ \E s \in SessionIds : StartCountRead(s)
  \/ \E s \in SessionIds : StartDictionaryRead(s)
  \/ \E s \in SessionIds : StartCreated(s)
  \/ \E s \in SessionIds, u \in Users, in \in budget.inputs : IngestCall(s, u, in)
  \/ \E c \in 1..Len(proc), text \in budget.texts : BackendAnswer(c, text)
  \/ Tick
  \/ \E w \in 1..Len(writes) : WriteLands(w)

DetectorSpec == DetectorInit /\ [][DetectorNext]_vars

(***************************************************************************)
(* A session of a user whose dictionary is not empty and is edited while   *)
(* the session runs; its flushes are answered with texts that make the     *)
(* transcript longer than the context taken from it, and the process may   *)
(* restart.                                                                *)
(***************************************************************************)
TextTwice == Repeated(<<"h","e","l","l","o"," ","y","o","u",".">>, 2, <<" ">>)

\* 184 characters whose last 180 begin with the sentence they end with.
TextCutTail ==
  <<"z","z","z"," ","h","e","l","l","o"," ","y","o","u","."," ">>
  \o Repeat("m", 146) \o <<".", " ">> \o TextTwice

ContextProfile ==
  [Profile(MaxIngest, 0, 0, MaxFaults, 0, {PlainInput}, {TextHi, TextTwice, TextCutTail})
     EXCEPT !.dictionaries = { <<>>,
                               <<Entry(<<"d", "d">>, <<>>, 60)>>,
                               <<Entry(Repeat("a", 220), <<>>, 90)>> },
            !.edits = MaxEdits]

ContextInit ==
  Fresh /\ budget = ContextProfile /\ dictionaryEntries \in budget.dictionaries

ContextNext ==
  \/ \E s \in SessionIds, title \in BOOLEAN : StartCall(s, Owner, title)
  \/ \E s \in SessionIds : StartSettingsRead(s)
  \/ \E s \in SessionIds : StartCountRead(s)
  \/ \E s \in SessionIds : StartDictionaryRead(s)
  \/ \E s \in SessionIds : StartCreated(s)
  \/ \E dictionary \in budget.dictionaries : DictionaryEdit(dictionary)
  \/ \E s \in SessionIds, u \in Users, in \in budget.inputs : IngestCall(s, u, in)
  \/ \E o \in 1..Len(ops) : IngestRestored(o)
  \/ \E c \in 1..Len(proc), text \in budget.texts : BackendAnswer(c, text)
  \/ Tick
  \/ \E w \in 1..Len(writes) : WriteLands(w)
  \/ Crash

ContextSpec == ContextInit /\ [][ContextNext]_vars

(***************************************************************************)
(* Two sessions of the same user run side by side.                         *)
(***************************************************************************)
PairProfile ==
  [Profile(2, 1, MaxCancel, MaxFaults, 0, {PlainInput}, {TextHi})
     EXCEPT !.sessions = SessionIds]

PairInit == Fresh /\ budget = PairProfile /\ dictionaryEntries \in budget.dictionaries

PairNext ==
  \/ \E s \in SessionIds, title \in BOOLEAN : StartCall(s, Owner, title)
  \/ \E s \in SessionIds : StartSettingsRead(s)
  \/ \E s \in SessionIds : StartCountRead(s)
  \/ \E s \in SessionIds : StartDictionaryRead(s)
  \/ \E s \in SessionIds : StartCreated(s)
  \/ \E s \in SessionIds, u \in Users, in \in budget.inputs : IngestCall(s, u, in)
  \/ \E o \in 1..Len(ops) : IngestRestored(o)
  \/ \E s \in SessionIds, u \in Users : FinalizeCall(s, u)
  \/ \E s \in SessionIds, u \in Users : CancelCall(s, u)
  \/ \E c \in 1..Len(proc), text \in budget.texts : BackendAnswer(c, text)
  \/ Tick
  \/ \E w \in 1..Len(writes) : WriteLands(w)
  \/ Crash

PairSpec == PairInit /\ [][PairNext]_vars

(***************************************************************************)
(* The scheduling of the event loop: a backend call that is under way      *)
(* eventually answers or throws, an update or a read sent to the database  *)
(* eventually settles, and time passes, so that a timer that was set       *)
(* eventually fires.                                                       *)
(***************************************************************************)
LiveProfile ==
  Profile(2, MaxFinalize, 0, MaxFaults, 0,
          {[chunk |-> LoudLong, durationMs |-> 1000, isLastChunk |-> FALSE]}, {TextHi})

LiveInit == Fresh /\ budget = LiveProfile /\ dictionaryEntries \in budget.dictionaries

\* Weak fairness of each kind of completion.  For the completions of backend
\* calls, of updates and of reads, WF_vars(A) is written out as
\* []<>~ENABLED <<A>>_vars \/ []<><<A>>_vars with the condition under which A
\* is enabled: a call is under way, an update is in flight, a read is awaited.
Fairness ==
  /\ WF_vars(Tick)
  /\ WF_vars(\E c \in 1..Len(proc) : BackoffElapsed(c))
  /\ \/ []<>(~\E c \in 1..Len(proc) : proc[c].active /\ proc[c].phase = "call")
     \/ []<><<\/ \E c \in 1..Len(proc), text \in budget.texts : BackendAnswer(c, text)
              \/ \E c \in 1..Len(proc), rateLimited \in BOOLEAN :
                   BackendError(c, rateLimited)>>_vars
  /\ \/ []<>(~\E w \in 1..Len(writes) : writes[w].state = "inflight")
     \/ []<><<\/ \E w \in 1..Len(writes) : WriteLands(w)
              \/ \E w \in 1..Len(writes) : WriteFails(w)>>_vars
  /\ \/ []<>(~\E o \in 1..Len(ops) : ops[o].pc = "restore")
     \/ []<><<\E o \in 1..Len(ops) : IngestRestored(o)>>_vars

LiveNext ==
  \/ \E s \in SessionIds, title \in BOOLEAN : StartCall(s, Owner, title)
  \/ \E s \in SessionIds : StartSettingsRead(s)
  \/ \E s \in SessionIds : StartCountRead(s)
  \/ \E s \in SessionIds : StartDictionaryRead(s)
  \/ \E s \in SessionIds : StartCreated(s)
  \/ \E s \in SessionIds, u \in Users, in \in budget.inputs : IngestCall(s, u, in)
  \/ \E o \in 1..Len(ops) : IngestRestored(o)
  \/ \E s \in SessionIds, u \in Users : FinalizeCall(s, u)
  \/ \E c \in 1..Len(proc), text \in budget.texts : BackendAnswer(c, text)
  \/ \E c \in 1..Len(proc), rateLimited \in BOOLEAN : BackendError(c, rateLimited)
  \/ \E c \in 1..Len(proc) : BackoffElapsed(c)
  \/ Tick
  \/ \E w \in 1..Len(writes) : WriteLands(w)
  \/ \E w \in 1..Len(writes) : WriteFails(w)
  \/ Crash

LiveSpec == LiveInit /\ [][LiveNext]_vars /\ Fairness

(***************************************************************************)
(* The dictation page: DictationWorkspace, its AudioRecorder objects and   *)
(* the worklet processor of each.  One step is one task of the page or of  *)
(* the audio thread, with the microtasks it leaves behind; an effect runs  *)
(* in the step that changed what it depends on.  The user clicks the       *)
(* buttons the page shows, leaves the page and opens it again;             *)
(* getUserMedia, addModule and the request that creates the session may    *)
(* fail, the status route answers STREAMING or COMPLETED (the row may be   *)
(* completed by this page or by another client of the user), and the       *)
(* chunks, complete, cancel and transcript requests are answered ok.       *)
(***************************************************************************)
\* The lengths of the channel data that process() is called with.
ChannelLengths == {1024, 4096}

Server == <<db, liveSessions, ctxs, proc, writes, ops, acceptLog, flushLog, lostChunks, restarts,
            budget, dictionaryEntries, starts>>

\* The effect of lines 241-302 after a render of the mounted component: when
\* status or transcriptionId has changed, the controller of the last run is
\* aborted, which ends its poll at the fetch, at res.json() or at the timer,
\* and, with a session and a status other than idle, a new poll sends its
\* first request.
useEffect(before, c) ==
  IF \/ ~c.mounted
     \/ c.status = before.status /\ c.transcriptionId = before.transcriptionId
    THEN c
    ELSE [c EXCEPT !.poll = IF c.transcriptionId # "" /\ c.status # "idle"
                              THEN [pc |-> "fetch", sid |-> c.transcriptionId]
                              ELSE IdleClient.poll]

\* await chunkQueue.current (lines 75 and 227) has the promise that was in
\* the chunkQueue of the call's mount when the call began to wait, the first
\* queueAt uploads: once they have settled stopRecording sends the complete
\* request (line 78) and cancelRecording the cancel request (line 228).
QueueAwaited(c) ==
  [c EXCEPT !.calls =
     [k \in 1..Len(c.calls) |->
        LET call == c.calls[k]
            queue == c.mounts[call.mount].chunkQueue
        IN
        IF /\ call.pc = "queue"
           /\ \A i \in 1..call.queueAt : queue[i].stage \in {"done", "skipped"}
          THEN IF call.kind = "stop"
                 THEN [call EXCEPT
                         !.pc = "complete",
                         !.uploadedAtComplete = c.uploaded,
                         !.pendingAtComplete =
                           UNION {{c.mounts[m].chunkQueue[i].id :
                                     i \in {j \in 1..Len(c.mounts[m].chunkQueue) :
                                              c.mounts[m].chunkQueue[j].stage
                                                \in {"queued", "fetching"}}} :
                                  m \in 1..Len(c.mounts)},
                         !.stoppedAtComplete =
                           \A r \in 1..Len(c.recorders) :
                             c.recorders[r].sid = call.sid => c.recorders[r].stopped]
                 ELSE [call EXCEPT !.pc = "cancel"]
          ELSE call]]

\* AudioRecorder.stop() of recorder r up to its await (lines 94-120).  The
\* call waits for close() when the context runs; without a context, and on
\* a context that another call is closing (close() rejects at once and the
\* rejection is caught), it runs to its end (lines 121-124).
RecorderStop(c, r) ==
  LET rec == c.recorders[r]
      released == [rec EXCEPT !.flushPosted = rec.worklet \/ rec.flushPosted,
                              !.connected = rec.connected /\ ~rec.worklet,
                              !.worklet = FALSE,
                              !.micHeld = rec.micHeld /\ ~rec.mediaStream,
                              !.mediaStream = FALSE]
  IN [c EXCEPT !.recorders[r] =
        IF rec.state = "idle" THEN [rec EXCEPT !.stopped = TRUE]
        ELSE IF rec.audioContext /\ rec.contextState = "running"
          THEN [released EXCEPT !.contextState = "closing"]
        ELSE [released EXCEPT !.audioContext = FALSE, !.state = "idle",
                              !.stopped = TRUE]]

\* What follows await recorder.stop() in call k: the polling effect resets
\* the page (lines 279-285); stopRecording and cancelRecording clear
\* recorderRef and wait for chunkQueue (lines 72-75, 226-227).  The refs are
\* those of the mount the call was made in.
RecorderStopped(c, k) ==
  LET m == c.calls[k].mount IN
  IF c.calls[k].kind = "poll"
    THEN [c EXCEPT !.mounts[m].recorderRef = 0, !.status = "idle",
                   !.transcriptionId = "", !.mounts[m].isStopping = FALSE,
                   !.calls[k].pc = "done"]
    ELSE QueueAwaited([c EXCEPT !.mounts[m].recorderRef = 0, !.calls[k].pc = "queue",
                                !.calls[k].queueAt = Len(c.mounts[m].chunkQueue)])

\* A call of stopRecording, of cancelRecording or of the polling effect of
\* the mounted component at its await of recorder.stop():
\* recorderRef.current?.stop() is called, and the call goes on at once unless
\* stop() waits for close().
AwaitRecorderStop(c, kind) ==
  LET m == Len(c.mounts)
      r == c.mounts[m].recorderRef
      k == Len(c.calls) + 1
      c1 == [c EXCEPT !.calls = Append(@, [kind |-> kind, sid |-> c.transcriptionId,
                                           mount |-> m,
                                           pc |-> "recorder", rec |-> r, queueAt |-> 0,
                                           uploadedAtComplete |-> {},
                                           pendingAtComplete |-> {},
                                           stoppedAtComplete |-> FALSE])]
      c2 == IF r = 0 THEN c1 ELSE RecorderStop(c1, r)
  IN IF r # 0 /\ c.recorders[r].contextState = "running"
             /\ c2.recorders[r].contextState = "closing"
       THEN c2
       ELSE RecorderStopped(c2, k)

\* The catch and finally blocks of the startRecording of mount m (lines
\* 200-209).
StartFailed(c, m) ==
  [c EXCEPT !.status = "idle", !.transcriptionId = "", !.mounts[m].loading = FALSE,
            !.mounts[m].startRecording = IdleClient.mounts[1].startRecording]

\* The Start button (lines 314-326) and startRecording up to its fetch
\* (lines 111-122).
StartRecording ==
  /\ client.mounted
  /\ ~client.mounts[Len(client.mounts)].loading /\ client.status = "idle"
  /\ client.started < MaxRecordings /\ client.clicks < MaxClicks
  /\ client' = [client EXCEPT !.mounts[Len(client.mounts)].loading = TRUE,
                              !.mounts[Len(client.mounts)].startRecording.pc = "fetch",
                              !.started = @ + 1, !.clicks = @ + 1]
  /\ UNCHANGED Server

\* The request that creates the session is answered to the startRecording of
\* mount m (lines 122-134).
StartAnswered(m, ok) ==
  /\ m \in 1..Len(client.mounts)
  /\ client.mounts[m].startRecording.pc = "fetch"
  /\ client' = IF ok
                 THEN [client EXCEPT !.mounts[m].startRecording.pc = "json",
                                     !.mounts[m].startRecording.sid =
                                       IF client.sessions = 0 THEN "s1" ELSE "s2",
                                     !.sessions = @ + 1]
                 ELSE useEffect(client, StartFailed(client, m))
  /\ UNCHANGED Server

\* response.json() resolves in the startRecording of mount m (lines
\* 134-198): the id and the status are stored, a new recorder is put in
\* recorderRef and its start() runs up to getUserMedia (recorder lines
\* 28-35).
StartParsed(m) ==
  /\ m \in 1..Len(client.mounts)
  /\ client.mounts[m].startRecording.pc = "json"
  /\ LET r == Len(client.recorders) + 1
         sid == client.mounts[m].startRecording.sid
     IN client' =
          useEffect(client,
            [client EXCEPT
               !.transcriptionId = sid, !.status = "recording",
               !.mounts[m].recorderRef = r,
               !.mounts[m].startRecording.pc = "start",
               !.mounts[m].startRecording.rec = r,
               !.recorders =
                 Append(@, [sid |-> sid, mount |-> m, state |-> "loading",
                            start |-> "getUserMedia",
                            mediaStream |-> FALSE, audioContext |-> FALSE,
                            worklet |-> FALSE, connected |-> FALSE, writeIndex |-> 0,
                            flushPosted |-> FALSE, port |-> <<>>, micHeld |-> FALSE,
                            contextState |-> "none", stopped |-> FALSE])])
  /\ UNCHANGED Server

\* getUserMedia settles in the start() that the startRecording of mount m
\* waits for (recorder lines 35-50).  When it resolves the stream and a new
\* audio context are stored and the worklet module is requested, whatever
\* the state of the recorder has become; when it rejects start() calls
\* stop() and throws (lines 87-91), and startRecording resets the page.
GetUserMediaSettles(m, ok) ==
  /\ m \in 1..Len(client.mounts)
  /\ client.mounts[m].startRecording.pc = "start"
  /\ LET r == client.mounts[m].startRecording.rec IN
     /\ client.recorders[r].start = "getUserMedia"
     /\ client' =
          IF ok
            THEN [client EXCEPT !.recorders[r].mediaStream = TRUE,
                                !.recorders[r].micHeld = TRUE,
                                !.recorders[r].audioContext = TRUE,
                                !.recorders[r].contextState = "running",
                                !.recorders[r].start = "addModule"]
            ELSE useEffect(client,
                   StartFailed(RecorderStop([client EXCEPT !.recorders[r].start = "none"],
                                            r), m))
  /\ UNCHANGED Server

\* addModule settles in the start() that the startRecording of mount m waits
\* for (recorder lines 50-91).  When it resolves the node is made and
\* connected and start() resolves, so that startRecording ends (lines 199,
\* 208); when start() throws, also at the construction of the node, it calls
\* stop(), waits for it and throws.
AddModuleSettles(m, ok) ==
  /\ m \in 1..Len(client.mounts)
  /\ client.mounts[m].startRecording.pc = "start"
  /\ LET r == client.mounts[m].startRecording.rec
         c1 == [client EXCEPT !.recorders[r].start = "none"]
         c2 == RecorderStop(c1, r)
     IN
     /\ client.recorders[r].start = "addModule"
     /\ client' =
          IF ok
            THEN [c1 EXCEPT !.recorders[r].worklet = TRUE,
                            !.recorders[r].connected = TRUE,
                            !.recorders[r].state = "recording",
                            !.mounts[m].loading = FALSE,
                            !.mounts[m].startRecording =
                              IdleClient.mounts[1].startRecording]
          ELSE IF c1.recorders[r].contextState = "running"
                  /\ c2.recorders[r].contextState = "closing"
            THEN [c2 EXCEPT !.mounts[m].startRecording.pc = "catch"]
          ELSE useEffect(client, StartFailed(c2, m))
  /\ UNCHANGED Server

\* process() of the worklet of recorder r with a channel of the given length
\* (lines 15-47 of the worklet), as long as its input is connected and the
\* audio thread of its context runs: the buffer is posted each time it is
\* full.
WorkletProcess(r, length) ==
  /\ r \in 1..Len(client.recorders)
  /\ client.recorders[r].connected
  /\ client.recorders[r].contextState \in {"running", "closing"}
  /\ client.produced < MaxBlocks
  /\ LET total == client.recorders[r].writeIndex + length IN
     client' = IF total >= bufferSize
                 THEN [client EXCEPT
                         !.recorders[r].port =
                           Append(@, [id |-> client.posted + 1, samples |-> bufferSize]),
                         !.recorders[r].writeIndex = total - bufferSize,
                         !.posted = @ + 1, !.produced = @ + 1]
                 ELSE [client EXCEPT !.recorders[r].writeIndex = total,
                                     !.produced = @ + 1]
  /\ UNCHANGED Server

\* The worklet of recorder r handles the flush message (lines 8-12 and 49-61
\* of the worklet), as long as the audio thread of its context runs.
WorkletFlush(r) ==
  /\ r \in 1..Len(client.recorders)
  /\ client.recorders[r].flushPosted
  /\ client.recorders[r].contextState \in {"running", "closing"}
  /\ client' = IF client.recorders[r].writeIndex = 0
                 THEN [client EXCEPT !.recorders[r].flushPosted = FALSE]
                 ELSE [client EXCEPT
                         !.recorders[r].flushPosted = FALSE,
                         !.recorders[r].writeIndex = 0,
                         !.recorders[r].port =
                           Append(@, [id |-> client.posted + 1,
                                      samples |-> client.recorders[r].writeIndex]),
                         !.posted = @ + 1]
  /\ UNCHANGED Server

\* port.onmessage of recorder r with a chunk (recorder lines 69-79) and the
\* onChunk of its recording (workspace lines 144-186), with the refs of the
\* mount that made the recorder: unless that mount is stopping, the upload is
\* chained to its chunkQueue, and begins at once when the queue has settled.
PortMessage(r) ==
  /\ r \in 1..Len(client.recorders)
  /\ client.recorders[r].port # <<>>
  /\ LET chunk == Head(client.recorders[r].port)
         sid == client.recorders[r].sid
         m == client.recorders[r].mount
         c1 == [client EXCEPT
                  !.recorders[r].port = Tail(@),
                  !.delivered =
                    Append(@, [id |-> chunk.id, rec |-> r, sid |-> sid,
                               samples |-> chunk.samples,
                               stopping |-> client.mounts[m].isStopping,
                               completeSent |->
                                 \E k \in 1..Len(client.calls) :
                                   /\ client.calls[k].kind = "stop"
                                   /\ client.calls[k].sid = sid
                                   /\ client.calls[k].pc
                                        \in {"complete", "transcript", "json", "done"},
                               stopped |-> client.recorders[r].stopped])]
         idle == \A i \in 1..Len(client.mounts[m].chunkQueue) :
                   client.mounts[m].chunkQueue[i].stage \in {"done", "skipped"}
     IN client' = IF client.mounts[m].isStopping THEN c1
                  ELSE [c1 EXCEPT !.mounts[m].chunkQueue =
                                    Append(@, [id |-> chunk.id, sid |-> sid,
                                               stage |-> IF idle THEN "fetching"
                                                         ELSE "queued"])]
  /\ UNCHANGED Server

\* The upload in progress of the chunkQueue of mount m is answered by the
\* chunks route (lines 159-176), and the uploads chained behind it run: while
\* the mount is stopping each returns at line 155, otherwise the first of
\* them is sent.  The calls that wait for chunkQueue go on.
UploadSettles(m) ==
  /\ m \in 1..Len(client.mounts)
  /\ \E i \in 1..Len(client.mounts[m].chunkQueue) :
       client.mounts[m].chunkQueue[i].stage = "fetching"
  /\ LET old == client.mounts[m].chunkQueue
         i == CHOOSE i \in 1..Len(old) : old[i].stage = "fetching"
         queue == [j \in 1..Len(old) |->
                     IF j = i THEN [old[j] EXCEPT !.stage = "done"]
                     ELSE IF j > i /\ client.mounts[m].isStopping
                       THEN [old[j] EXCEPT !.stage = "skipped"]
                     ELSE IF j = i + 1
                       THEN [old[j] EXCEPT !.stage = "fetching"]
                     ELSE old[j]]
     IN client' = QueueAwaited([client EXCEPT !.mounts[m].chunkQueue = queue,
                                              !.uploaded = @ \cup {old[i].id}])
  /\ UNCHANGED Server

\* The Stop button (lines 329-341) and stopRecording up to its first await
\* that is pending (lines 60-78).
StopRecording ==
  /\ client.mounted
  /\ ~client.mounts[Len(client.mounts)].loading /\ client.status = "recording"
  /\ client.transcriptionId # "" /\ ~client.mounts[Len(client.mounts)].isStopping
  /\ client.clicks < MaxClicks
  /\ client' = useEffect(client,
                 AwaitRecorderStop([client EXCEPT
                                      !.mounts[Len(client.mounts)].isStopping = TRUE,
                                      !.status = "finishing",
                                      !.clicks = @ + 1], "stop"))
  /\ UNCHANGED Server

\* The Cancel button (lines 342-351) and cancelRecording up to its first
\* await that is pending (lines 220-228).
CancelRecording ==
  /\ client.mounted
  /\ ~client.mounts[Len(client.mounts)].loading /\ client.status = "recording"
  /\ client.transcriptionId # ""
  /\ client.clicks < MaxClicks
  /\ client' = useEffect(client,
                 AwaitRecorderStop([client EXCEPT !.clicks = @ + 1], "cancel"))
  /\ UNCHANGED Server

\* audioContext.close() of recorder r resolves (recorder lines 120-124): the
\* stop() that waited for it ends, and the call that waited for that stop()
\* goes on, which is a call of stopRecording, of cancelRecording or of the
\* polling effect, or the start() that a startRecording waits for.
ContextClosed(r) ==
  /\ r \in 1..Len(client.recorders)
  /\ client.recorders[r].contextState = "closing"
  /\ LET c1 == [client EXCEPT !.recorders[r].contextState = "closed",
                              !.recorders[r].audioContext = FALSE,
                              !.recorders[r].state = "idle",
                              !.recorders[r].stopped = TRUE]
         m == client.recorders[r].mount
         waiting == {k \in 1..Len(client.calls) :
                       client.calls[k].pc = "recorder" /\ client.calls[k].rec = r}
     IN client' =
          useEffect(client,
            IF /\ client.mounts[m].startRecording.pc = "catch"
               /\ client.mounts[m].startRecording.rec = r
              THEN StartFailed(c1, m)
              ELSE RecorderStopped(c1, CHOOSE k \in waiting : TRUE))
  /\ UNCHANGED Server

\* The complete route answers call k of stopRecording, which requests the
\* transcript (lines 78-87).
CompleteAnswered(k) ==
  /\ k \in 1..Len(client.calls) /\ client.calls[k].pc = "complete"
  /\ client' = [client EXCEPT !.calls[k].pc = "transcript"]
  /\ UNCHANGED Server

\* The transcript request of call k is answered (lines 87-89).
TranscriptAnswered(k) ==
  /\ k \in 1..Len(client.calls) /\ client.calls[k].pc = "transcript"
  /\ client' = [client EXCEPT !.calls[k].pc = "json"]
  /\ UNCHANGED Server

\* transcriptRes.json() of call k resolves and stopRecording ends (lines
\* 89-106).
TranscriptParsed(k) ==
  /\ k \in 1..Len(client.calls) /\ client.calls[k].pc = "json"
  /\ client' = useEffect(client,
                 [client EXCEPT !.status = "idle", !.transcriptionId = "",
                                !.mounts[client.calls[k].mount].isStopping = FALSE,
                                !.calls[k].pc = "done"])
  /\ UNCHANGED Server

\* The cancel route answers call k of cancelRecording, which ends (lines
\* 228-238).
CancelAnswered(k) ==
  /\ k \in 1..Len(client.calls) /\ client.calls[k].pc = "cancel"
  /\ client' = useEffect(client,
                 [client EXCEPT !.status = "idle", !.transcriptionId = "",
                                !.calls[k].pc = "done"])
  /\ UNCHANGED Server

\* The status route answers the poll (lines 254-261).
PollAnswered ==
  /\ client.poll.pc = "fetch"
  /\ client' = [client EXCEPT !.poll.pc = "json"]
  /\ UNCHANGED Server

\* res.json() of the poll resolves with the status of the row (lines
\* 261-297).  On COMPLETED the poll aborts its controller, stops the recorder
\* that recorderRef holds and resets the page; otherwise it sets its timer.
PollParsed(statusRemote) ==
  /\ client.poll.pc = "json"
  /\ client' =
       IF statusRemote # STATUS_COMPLETED
         THEN [client EXCEPT !.poll.pc = "timer"]
       ELSE IF client.mounts[Len(client.mounts)].recorderRef = 0
         THEN useEffect(client,
                [client EXCEPT !.poll = IdleClient.poll, !.status = "idle",
                               !.transcriptionId = "",
                               !.mounts[Len(client.mounts)].isStopping = FALSE])
       ELSE useEffect([client EXCEPT !.poll = IdleClient.poll],
              AwaitRecorderStop([client EXCEPT !.poll = IdleClient.poll], "poll"))
  /\ UNCHANGED Server

\* The timer of the poll fires and the next request is sent (lines 249-257,
\* 295).
PollTimer ==
  /\ client.poll.pc = "timer"
  /\ client' = [client EXCEPT !.poll.pc = "fetch"]
  /\ UNCHANGED Server

\* The user leaves the dictation page: DictationWorkspace unmounts, and the
\* cleanup of the effect aborts the poll (line 301).  The store, the
\* recorders and the calls under way stay as they are.
Unmount ==
  /\ client.mounted
  /\ Len(client.mounts) < MaxMounts /\ client.clicks < MaxClicks
  /\ client' = [client EXCEPT !.mounted = FALSE, !.poll = IdleClient.poll,
                              !.clicks = @ + 1]
  /\ UNCHANGED Server

\* The user opens the dictation page again: DictationWorkspace mounts with
\* new loading, recorderRef, chunkQueue and isStoppingRef (lines 36-40) and
\* with the status and the transcriptionId of the store, and its effect runs
\* (lines 241-302).
Mount ==
  /\ ~client.mounted
  /\ client' = [client EXCEPT
                  !.mounted = TRUE,
                  !.mounts = Append(@, IdleClient.mounts[1]),
                  !.poll = IF client.transcriptionId # "" /\ client.status # "idle"
                             THEN [pc |-> "fetch", sid |-> client.transcriptionId]
                             ELSE IdleClient.poll]
  /\ UNCHANGED Server

ClientInit ==
  Fresh /\ budget = Profile(0, 0, 0, 0, 0, {}, {}) /\ dictionaryEntries = <<>>

ClientNext ==
  \/ StartRecording
  \/ \E m \in 1..MaxMounts, ok \in BOOLEAN : StartAnswered(m, ok)
  \/ \E m \in 1..MaxMounts : StartParsed(m)
  \/ \E m \in 1..MaxMounts, ok \in BOOLEAN : GetUserMediaSettles(m, ok)
  \/ \E m \in 1..MaxMounts, ok \in BOOLEAN : AddModuleSettles(m, ok)
  \/ \E r \in 1..MaxRecordings, length \in ChannelLengths : WorkletProcess(r, length)
  \/ \E r \in 1..MaxRecordings : WorkletFlush(r)
  \/ \E r \in 1..MaxRecordings : PortMessage(r)
  \/ \E m \in 1..MaxMounts : UploadSettles(m)
  \/ StopRecording
  \/ CancelRecording
  \/ \E r \in 1..MaxRecordings : ContextClosed(r)
  \/ \E k \in 1..(MaxClicks + MaxRecordings) : CompleteAnswered(k)
  \/ \E k \in 1..(MaxClicks + MaxRecordings) : TranscriptAnswered(k)
  \/ \E k \in 1..(MaxClicks + MaxRecordings) : TranscriptParsed(k)
  \/ \E k \in 1..(MaxClicks + MaxRecordings) : CancelAnswered(k)
  \/ PollAnswered
  \/ \E statusRemote \in {STATUS_STREAMING, STATUS_COMPLETED} : PollParsed(statusRemote)
  \/ PollTimer
  \/ Unmount
  \/ Mount

ClientSpec == ClientInit /\ [][ClientNext]_vars

(***************************************************************************)
(* Vocabulary of the properties.                                           *)
(***************************************************************************)
\* The step makes call o return ok from a finalize that wrote COMPLETED.
FinalizeCompletes(o) ==
  /\ o <= Len(ops) /\ ops[o].pc # "done"
  /\ ops'[o].pc = "done" /\ ops'[o].result = "ok" /\ ops'[o].fin = "completed"

\* A backend call outcome that consumed the audio of the flush.
Answered == {"text", "empty", "hallucination"}

\* How many flushes of the log sent chunk k to the backend and got an answer.
TimesAnswered(log, k) ==
  Cardinality({i \in 1..Len(log) :
                 log[i].outcome \in Answered /\ k \in ChunkIds(log[i].chunks)})

DiscardedAsSilence(log, k) ==
  \E i \in 1..Len(log) : log[i].outcome = "silent" /\ k \in ChunkIds(log[i].chunks)

\* The texts of the flushes of session s that were appended, in flush order.
RECURSIVE FlushTexts(_, _)
FlushTexts(log, s) ==
  IF log = <<>> THEN <<>>
  ELSE FlushTexts(SubSeq(log, 1, Len(log) - 1), s)
       \o (IF log[Len(log)].sid = s /\ log[Len(log)].outcome = "text"
             THEN <<log[Len(log)].text>> ELSE <<>>)

\* Smart spacing as the specification words it: a separating space unless the
\* transcript so far ends in terminal punctuation.
SmartAppend(transcript, segment) ==
  IF transcript = <<>> THEN segment
  ELSE IF transcript[Len(transcript)] \in {".", "!", "?"} THEN transcript \o segment
  ELSE transcript \o <<" ">> \o segment

RECURSIVE SmartJoin(_)
SmartJoin(texts) ==
  IF texts = <<>> THEN <<>>
  ELSE SmartAppend(SmartJoin(SubSeq(texts, 1, Len(texts) - 1)), texts[Len(texts)])

\* Only ingest, flush completion and finalize have happened: no cancel, no
\* restart of the process (restarted counts them), no failed backend call,
\* no rejected update.
PlainRun(os, ws, log, restarted) ==
  /\ \A o \in 1..Len(os) : os[o].kind # "cancel"
  /\ \A w \in 1..Len(ws) : ws[w].state # "failed"
  /\ \A i \in 1..Len(log) : log[i].outcome # "failed"
  /\ restarted = 0

(***************************************************************************)
(* Properties.                                                             *)
(***************************************************************************)
\* C1: in a run of ingests, flush completions and finalize only, when
\* finalize returns ok the durable transcript is the smart-spaced
\* concatenation, in flush order, of the appended flush texts, and every
\* accepted chunk was answered by exactly one flush or dropped as silence.
C1_TranscriptCoversEveryChunk ==
  [][\A o \in 1..Len(ops) :
       (FinalizeCompletes(o) /\ PlainRun(ops', writes', flushLog', restarts'))
       => /\ db'[ops[o].sid].content = SmartJoin(FlushTexts(flushLog', ops[o].sid))
          /\ \A k \in 1..Len(acceptLog') :
               \/ TimesAnswered(flushLog', k) = 1
               \/ DiscardedAsSilence(flushLog', k)]_vars

\* C2: a finalize by the owner that is called after a finalize of the session
\* has returned ok returns ok and issues no update of the durable record.
C2_SecondFinalizeIsNoOp ==
  \A o \in 1..Len(ops) :
    (ops[o].kind = "finalize" /\ ops[o].user = Owner /\ ops[o].afterCompleted)
    => /\ ops[o].result \in {"pending", "ok", "lost"}
       /\ \A w \in 1..Len(writes) : writes[w].by # o

\* C3: once a cancel by the owner of a STREAMING session has returned, no
\* call has been made since and every update has settled, the durable
\* status is CANCELLED.
C3_CancelEndsCancelled ==
  \A o \in 1..Len(ops) :
    ( /\ ops[o].kind = "cancel" /\ ops[o].user = Owner
      /\ ops[o].pc = "done" /\ ops[o].result = "ok"
      /\ ops[o].statusAtCall = STATUS_STREAMING
      /\ \A n \in 1..Len(ops) : ~ops[n].afterCancel
      /\ \A w \in 1..Len(writes) : writes[w].state # "inflight" )
    => db[ops[o].sid].status = STATUS_CANCELLED

\* C4: for every session id at most one backend call is in flight.
C4_OneBackendCallPerSession ==
  \A s \in SessionIds :
    Cardinality({c \in 1..Len(proc) :
                   /\ proc[c].active /\ proc[c].phase = "call"
                   /\ ctxs[c].transcriptionId = s}) <= 1

\* C5: the durable status only changes from STREAMING to a terminal status.
C5_StatusChangesOnce ==
  [][\A s \in SessionIds :
       (db[s].exists /\ db'[s].status # db[s].status)
       => (db[s].status = STATUS_STREAMING /\ db'[s].status \in {STATUS_COMPLETED, STATUS_FAILED, STATUS_CANCELLED})]_vars

\* C6: a chunk is accepted only while the durable status is STREAMING (when
\* the ingest was called or when the chunk was appended).
C6_IngestOnlyWhileStreaming ==
  \A i \in 1..Len(acceptLog) :
    \/ acceptLog[i].statusAtCall = STATUS_STREAMING
    \/ acceptLog[i].status = STATUS_STREAMING

\* C7: when finalize returns ok no backend call of the session is in flight
\* and every chunk that was pending when finalize began has been handed to a
\* flush that sent it to the backend or dropped it as silence.
C7_FinalizeLeavesNothingBehind ==
  [][\A o \in 1..Len(ops) :
       FinalizeCompletes(o)
       => /\ \A c \in 1..Len(proc') :
               ~(proc'[c].active /\ ctxs'[c].transcriptionId = ops[o].sid)
          /\ \A k \in ops[o].pendingAtCall :
               \E i \in 1..Len(flushLog') :
                 /\ flushLog'[i].outcome # "tooShort"
                 /\ k \in ChunkIds(flushLog'[i].chunks)]_vars

\* C8: when the final update of finalize lands, no background update of the
\* session that was issued before it is still in flight.
C8_NoBackgroundWriteAtCompletion ==
  [][\A w \in 1..Len(writes) :
       (writes[w].kind = "final" /\ writes[w].state = "inflight"
        /\ writes'[w].state = "ok")
       => \A v \in 1..(w - 1) :
            ~(IsBackground(writes[v]) /\ writes[v].sid = writes[w].sid
              /\ writes[v].state = "inflight")]_vars

\* C9: when a flush ends because its backend call failed for good, the
\* pending chunks are the snapshot followed by the chunks that arrived during
\* the call, in arrival order; the accumulated transcript is the one the flush
\* started with and the durable status is what it was.
C9_FailedFlushRestoresSnapshot ==
  \A i \in 1..Len(flushLog) :
    flushLog[i].outcome = "failed"
    => /\ flushLog[i].pendingAfter = flushLog[i].chunks \o flushLog[i].during
       /\ flushLog[i].transcriptAfter = flushLog[i].transcriptBefore
       /\ flushLog[i].statusAfter = flushLog[i].statusBefore

\* A flush of a STREAMING session has failed while a chunk arrived during its
\* backend call.
C9_Witness ==
  \E i \in 1..Len(flushLog) :
    /\ flushLog[i].outcome = "failed"
    /\ flushLog[i].chunks # <<>> /\ flushLog[i].during # <<>>
    /\ flushLog[i].statusAfter = STATUS_STREAMING

\* C10: every accepted chunk that no flush has consumed is held in exactly one
\* place, the pending chunks of its context or the snapshot of a flush in
\* flight, and a consumed chunk in none; the snapshot of a flush holds no chunk
\* that arrived after the flush began; no chunk is in two flushes that the
\* backend answered.
C10_SnapshotAndClear ==
  LET \* The number of places chunk k is held in: the pending buffers and
      \* the snapshots of the flushes in flight.
      Places(k) ==
        Cardinality({p \in (1..Len(ctxs)) \X (1..Len(acceptLog)) :
                       /\ p[2] <= Len(ctxs[p[1]].audioChunks)
                       /\ ctxs[p[1]].audioChunks[p[2]].id = k})
        + Cardinality({p \in (1..Len(proc)) \X (1..Len(acceptLog)) :
                       /\ proc[p[1]].active
                       /\ p[2] <= Len(proc[p[1]].chunksToProcess)
                       /\ proc[p[1]].chunksToProcess[p[2]].id = k})
  IN
  /\ \A k \in (1..Len(acceptLog)) \ lostChunks :
       /\ Places(k) = IF TimesAnswered(flushLog, k) > 0 \/ DiscardedAsSilence(flushLog, k)
                        THEN 0 ELSE 1
       /\ TimesAnswered(flushLog, k) <= 1
  /\ \A c \in 1..Len(proc) :
       proc[c].active
       => \A k \in ChunkIds(proc[c].chunksToProcess) : k <= proc[c].acceptedAtStart
  /\ \A i \in 1..Len(flushLog) :
       /\ \A k \in ChunkIds(flushLog[i].chunks) : k <= flushLog[i].acceptedAtStart
       /\ ChunkIds(flushLog[i].chunks) \cap ChunkIds(flushLog[i].during) = {}

\* A backend call is in flight with its snapshot while a chunk that arrived
\* during the call is pending.
C10_Witness ==
  \E c \in 1..Len(proc) :
    /\ proc[c].active /\ proc[c].phase = "call"
    /\ proc[c].chunksToProcess # <<>>
    /\ ctxs[c].audioChunks # <<>>
    /\ \A j \in 1..Len(ctxs[c].audioChunks) :
         ctxs[c].audioChunks[j].id > proc[c].acceptedAtStart

IsPrefix(a, b) == Len(a) <= Len(b) /\ SubSeq(b, 1, Len(a)) = a

\* C11: an ingest that finds no context and reads a STREAMING row of its
\* caller registers a new context, which holds no chunk but the one of this
\* call and whose transcript is the one read from the row; the chunk is
\* accepted and the call returns ok (or goes on to finalize, if isLastChunk);
\* the transcript of a context is only ever extended.
C11_RestoreKeepsTranscript ==
  [][/\ \A o \in 1..Len(ops) :
          \* The step resumes ingest call o with the answer to its read, the
          \* row being a STREAMING row of the caller; the session was absent
          \* from the registry when it was called.
          ( /\ ops[o].pc = "restore" /\ ops'[o].pc # "restore"
            /\ ops'[o].result # "lost"
            /\ db[ops[o].sid].exists /\ db[ops[o].sid].userId = ops[o].user
            /\ db[ops[o].sid].status = STATUS_STREAMING )
          => LET c == Len(ctxs) + 1
                 k == Len(acceptLog) + 1 IN
             /\ Len(ctxs') = c /\ liveSessions'[ops[o].sid] = c
             /\ Len(acceptLog') = k /\ acceptLog'[k].ctx = c
             /\ acceptLog'[k].chunk.quarterSeconds = ops[o].chunk.quarterSeconds
             /\ acceptLog'[k].chunk.level = ops[o].chunk.level
             /\ ChunkIds(ctxs'[c].audioChunks) \cup ChunkIds(proc'[c].chunksToProcess)
                  \subseteq {k}
             /\ ctxs'[c].accumulatedTranscript = db[ops[o].sid].content
             /\ ops'[o].result = IF ops[o].isLastChunk THEN "pending" ELSE "ok"
     /\ \A c \in 1..Len(ctxs) :
          c <= Len(ctxs')
          => IsPrefix(ctxs[c].accumulatedTranscript, ctxs'[c].accumulatedTranscript)]_vars

\* A context restored from a row with a transcript has been extended by a
\* flush of its own.
C11_Witness ==
  \E o \in 1..Len(ops) :
    /\ ops[o].kind = "ingest" /\ ops[o].read.found /\ ops[o].read.content # <<>>
    /\ ops[o].ctx # 0 /\ ops[o].ctx <= Len(ctxs)
    /\ IsPrefix(ops[o].read.content, ctxs[ops[o].ctx].accumulatedTranscript)
    /\ ctxs[ops[o].ctx].accumulatedTranscript # ops[o].read.content

\* C12: a finalize by the owner of a STREAMING session that is not in the
\* registry builds no context, registers nothing and issues the update to
\* FAILED; when that update has landed the call throws NotFound and the row
\* has status FAILED and the lost-audio message as its transcript.
C12_FinalizeWithoutContextFails ==
  [][/\ \A s \in SessionIds :
          LET n == Len(ops) + 1 IN
          ( /\ Len(ops') = n /\ ops'[n].kind = "finalize" /\ ops'[n].sid = s
            /\ ops'[n].user = db[s].userId
            /\ liveSessions[s] = 0 /\ db[s].status = STATUS_STREAMING )
          => /\ ops'[n].pc = "wait_failed" /\ ops'[n].result = "pending"
             /\ ctxs' = ctxs /\ liveSessions' = liveSessions /\ db' = db
             /\ Len(writes') = Len(writes) + 1
             /\ writes'[Len(writes')].kind = "failed"
     /\ \A o \in 1..Len(ops) :
          ( /\ ops[o].kind = "finalize" /\ ops[o].pc = "wait_failed"
            /\ ops[o].user = db[ops[o].sid].userId
            /\ ops[o].statusAtCall = STATUS_STREAMING
            /\ ops'[o].pc = "done" /\ writes'[ops[o].write].state = "ok" )
          => /\ ops'[o].result = "NotFound"
             /\ db'[ops[o].sid].status = STATUS_FAILED
             /\ db'[ops[o].sid].content = LOST_AUDIO_MESSAGE
             /\ Len(ctxs') = Len(ctxs) /\ liveSessions' = liveSessions]_vars

\* A finalize by the owner, called on a STREAMING session that was not in
\* the registry, has thrown NotFound.
C12_Witness ==
  \E o \in 1..Len(ops) :
    /\ ops[o].kind = "finalize" /\ ops[o].user = db[ops[o].sid].userId
    /\ ops[o].statusAtCall = STATUS_STREAMING
    /\ ops[o].pc = "done" /\ ops[o].result = "NotFound"
    /\ db[ops[o].sid].status = STATUS_FAILED

\* C13: an ingest without isLastChunk never waits for a flush: it is either
\* reading the row or has returned; called by the owner of a registered
\* context that is not finalized it appends its chunk and returns ok in the
\* step of the call, whether or not a backend call is in flight.
C13_IngestDoesNotWait ==
  [][/\ \A o \in 1..Len(ops') :
          (ops'[o].kind = "ingest" /\ ~ops'[o].isLastChunk)
          => ops'[o].pc \in {"restore", "done"}
     /\ \A s \in SessionIds :
          LET n == Len(ops) + 1
              c == liveSessions[s] IN
          ( /\ Len(ops') = n /\ ops'[n].kind = "ingest" /\ ops'[n].sid = s
            /\ ~ops'[n].isLastChunk
            /\ c # 0 /\ ctxs[c].userId = ops'[n].user /\ ~ctxs[c].finalized )
          => /\ ops'[n].pc = "done" /\ ops'[n].result = "ok"
             /\ Len(acceptLog') = Len(acceptLog) + 1
             /\ acceptLog'[Len(acceptLog')].ctx = c]_vars

\* The ingest that started a flush and a later ingest have both returned ok
\* while the backend call of that flush is still in flight.
C13_Witness ==
  \E c \in 1..Len(proc) :
    /\ proc[c].active /\ proc[c].phase = "call"
    /\ \E i, j \in 1..Len(acceptLog) :
         /\ i < j /\ acceptLog[i].ctx = c /\ acceptLog[j].ctx = c
         /\ i \in ChunkIds(proc[c].chunksToProcess)
         /\ j \in ChunkIds(ctxs[c].audioChunks)
    /\ \A o \in 1..Len(ops) :
         ops[o].kind = "ingest" /\ ops[o].pc = "done" /\ ops[o].result = "ok"
    /\ lostChunks = {}

\* The step is a call of ingest without isLastChunk by the owner of the
\* registered context c of session s, which is not finalized.
AcceptedIngest(s, c) ==
  LET n == Len(ops) + 1 IN
  /\ Len(ops') = n /\ ops'[n].kind = "ingest" /\ ops'[n].sid = s
  /\ ~ops'[n].isLastChunk
  /\ c # 0 /\ c = liveSessions[s]
  /\ ctxs[c].userId = ops'[n].user /\ ~ctxs[c].finalized

\* The step begins a flush of context c: its backend call starts, or the
\* flush ends at once at one of its guards.
FlushBegins(c) ==
  \/ ~proc[c].active /\ proc'[c].active
  \/ \E i \in (Len(flushLog) + 1)..Len(flushLog') :
       flushLog'[i].ctx = c /\ flushLog'[i].outcome \in {"tooShort", "silent"}

\* C14: an accepted ingest begins a flush exactly when no flush is in flight
\* and the interval has passed since the last flush, or more than MANY_CHUNKS
\* chunks are pending, or speech resumed on this chunk and at least
\* RESUME_CHUNKS chunks are pending.
C14_FlushTriggerPolicy ==
  [][\A s \in SessionIds : \A c \in 1..Len(ctxs) :
       AcceptedIngest(s, c)
       => LET chunk == acceptLog'[Len(acceptLog')].chunk
              count == Len(ctxs[c].audioChunks) + 1
              resumed == ctxs[c].wasSilent /\ RmsAbove(<<chunk>>, 3)
          IN FlushBegins(c)
             <=> /\ ~ctxs[c].isProcessing
                 /\ \/ ctxs[c].sinceLastTranscription >= TRANSCRIPTION_INTERVAL_MS
                    \/ count > MANY_CHUNKS
                    \/ resumed /\ count >= RESUME_CHUNKS]_vars

\* Audio whose samples are all zero.
AllSilent(chunks) ==
  chunks # <<>> /\ \A i \in 1..Len(chunks) : chunks[i].level = 0

\* C15, as stated: a snapshot of pure silence is never sent to the backend;
\* every flush of such a snapshot ends in the step it began in, without a
\* backend call and without an update of the transcript, leaves the
\* accumulated transcript as it was and puts none of its chunks back among
\* the pending chunks.
C15_SilentSnapshotIsDiscarded ==
  [][/\ \A c \in 1..Len(proc') :
          proc'[c].active => ~AllSilent(proc'[c].chunksToProcess)
     /\ \A i \in 1..Len(flushLog') :
          AllSilent(flushLog'[i].chunks)
          => /\ flushLog'[i].outcome = "silent"
             /\ flushLog'[i].transcriptAfter = flushLog'[i].transcriptBefore
             /\ ChunkIds(flushLog'[i].pendingAfter) \cap ChunkIds(flushLog'[i].chunks) = {}
     /\ ( /\ Len(flushLog') = Len(flushLog) + 1
          /\ AllSilent(flushLog'[Len(flushLog')].chunks) )
        => LET c == flushLog'[Len(flushLog')].ctx IN
           /\ ~proc[c].active /\ ~proc'[c].active
           /\ ctxs'[c].accumulatedTranscript = ctxs[c].accumulatedTranscript
           /\ \A w \in 1..Len(writes') :
                w > Len(writes) => writes'[w].kind # "content"]_vars

\* C15, amended: a snapshot of pure silence is never sent to the backend;
\* every flush of such a snapshot ends in the step it began in, without a
\* backend call and without an update of the transcript, and leaves the
\* accumulated transcript as it was.  If the snapshot holds at least half a
\* second of audio (the minimum that applies once the last chunk was silent)
\* none of its chunks is put back among the pending chunks; if it is shorter,
\* the minimum-duration guard, which the code evaluates first, has put the
\* snapshot back at the front of the pending chunks.
C15_SilentFlushDiscards ==
  [][/\ \A c \in 1..Len(proc') :
          proc'[c].active => ~AllSilent(proc'[c].chunksToProcess)
     /\ \A i \in 1..Len(flushLog') :
          AllSilent(flushLog'[i].chunks)
          => LET e == flushLog'[i] IN
             /\ e.transcriptAfter = e.transcriptBefore
             /\ IF TotalAudioBytes(e.chunks) >= BYTES_PER_SECOND \div 2
                  THEN /\ e.outcome = "silent"
                       /\ ChunkIds(e.pendingAfter) \cap ChunkIds(e.chunks) = {}
                  ELSE /\ e.outcome = "tooShort"
                       /\ Len(e.pendingAfter) >= Len(e.chunks)
                       /\ SubSeq(e.pendingAfter, 1, Len(e.chunks)) = e.chunks
     /\ ( /\ Len(flushLog') = Len(flushLog) + 1
          /\ AllSilent(flushLog'[Len(flushLog')].chunks) )
        => LET c == flushLog'[Len(flushLog')].ctx IN
           /\ ~proc[c].active /\ ~proc'[c].active
           /\ ctxs'[c].accumulatedTranscript = ctxs[c].accumulatedTranscript
           /\ \A w \in 1..Len(writes') :
                w > Len(writes) => writes'[w].kind # "content"]_vars

\* Three flushes in a row have found pure silence: the first snapshot, a
\* quarter of a second, was put back as too short, the next two were
\* dropped; no backend call is in flight and nothing was transcribed.
C15_Witness ==
  /\ Len(flushLog) = 3
  /\ \A i \in 1..3 : AllSilent(flushLog[i].chunks)
  /\ flushLog[1].outcome = "tooShort"
  /\ flushLog[2].outcome = "silent" /\ flushLog[3].outcome = "silent"
  /\ \A c \in 1..Len(proc) : ~proc[c].active /\ ctxs[c].accumulatedTranscript = <<>>
  /\ \A c \in 1..Len(ctxs) : ctxs[c].audioChunks = <<>>

\* C16: a flush whose backend call answered the looping text TextLoop ends
\* as a hallucination: the accumulated transcript is unchanged, no update of
\* the transcript is issued, the row is untouched, no call returns or throws
\* because of it, and the context is free to flush again.
C16_HallucinationIsDropped ==
  [][( /\ Len(flushLog') = Len(flushLog) + 1
       /\ flushLog'[Len(flushLog')].text = TextLoop )
     => LET e == flushLog'[Len(flushLog')]
            c == e.ctx IN
        /\ e.outcome = "hallucination"
        /\ e.transcriptAfter = e.transcriptBefore
        /\ ctxs'[c].accumulatedTranscript = ctxs[c].accumulatedTranscript
        /\ \A w \in 1..Len(writes') : w > Len(writes) => writes'[w].kind # "content"
        /\ db' = db
        /\ \A o \in 1..Len(ops) : ops'[o].result = ops[o].result
        /\ ~ctxs'[c].isProcessing /\ ~proc'[c].active]_vars

\* After a flush that was dropped as a hallucination, a later flush of the
\* same context has appended text.
C16_Witness ==
  \E i, j \in 1..Len(flushLog) :
    /\ i < j /\ flushLog[i].ctx = flushLog[j].ctx
    /\ flushLog[i].outcome = "hallucination" /\ flushLog[i].text = TextLoop
    /\ flushLog[j].outcome = "text"
    /\ lostChunks = {}

\* C17: when the backend call of the flush that finalize awaits fails, the
\* call goes on to issue the final update with the transcript accumulated
\* before that flush; when that update lands the call returns ok and the row
\* is COMPLETED with that transcript.
C17_FinalizeSurvivesFlushFailure ==
  [][\A o \in 1..Len(ops) :
       /\ ( /\ ops[o].pc = "wait_flush"
            /\ Len(flushLog') = Len(flushLog) + 1
            /\ flushLog'[Len(flushLog')].ctx = ops[o].ctx
            /\ flushLog'[Len(flushLog')].outcome = "failed" )
          => /\ ops'[o].pc = "wait_final" /\ ops'[o].result = "pending"
             /\ ops'[o].write = Len(writes') /\ Len(writes') = Len(writes) + 1
             /\ writes'[ops'[o].write].kind = "final"
             /\ writes'[ops'[o].write].content = flushLog'[Len(flushLog')].transcriptBefore
             /\ writes'[ops'[o].write].content = ctxs[ops[o].ctx].accumulatedTranscript
       /\ ( /\ ops[o].pc = "wait_final" /\ ops'[o].pc = "done"
            /\ writes'[ops[o].write].state = "ok" )
          => /\ ops'[o].result = "ok" /\ ops'[o].fin = "completed"
             /\ db'[ops[o].sid].status = STATUS_COMPLETED
             /\ db'[ops[o].sid].content = writes[ops[o].write].content]_vars

\* A finalize has returned ok although the flush of the chunks that were
\* pending when it was called failed, an earlier flush having transcribed
\* text; the row is COMPLETED with that text.
C17_Witness ==
  \E o \in 1..Len(ops) :
    /\ ops[o].pc = "done" /\ ops[o].result = "ok" /\ ops[o].fin = "completed"
    /\ ops[o].pendingAtCall # {}
    /\ Len(flushLog) = 2
    /\ flushLog[1].outcome = "text"
    /\ flushLog[2].outcome = "failed"
    /\ ChunkIds(flushLog[2].chunks) = ops[o].pendingAtCall
    /\ db[ops[o].sid].status = STATUS_COMPLETED
    /\ db[ops[o].sid].content = flushLog[2].transcriptBefore
    /\ db[ops[o].sid].content # <<>>

\* Call o is made by a user who does not own the session.
ForeignCall(os, o) == os[o].user # db[os[o].sid].userId

\* The step is one in which call o is made or goes on.
Acts(o) ==
  /\ o <= Len(ops')
  /\ o > Len(ops) \/ ops'[o] # ops[o]
  /\ ops'[o].result # "lost"

\* C18: a call of ingest, finalize or cancel by a user who does not own the
\* session changes neither the registry, the contexts nor the row, and ends
\* with an error.
C18_ForeignCallsFail ==
  [][/\ \A o \in 1..Len(ops') :
          (Acts(o) /\ ForeignCall(ops', o))
          => ctxs' = ctxs /\ liveSessions' = liveSessions /\ proc' = proc /\ db' = db
     /\ \A o \in 1..Len(ops') :
          (ForeignCall(ops', o) /\ ops'[o].pc = "done") => ops'[o].result # "ok"]_vars

\* C19: every change of the durable transcript of a session extends it: the
\* old value is a prefix of the new one.
C19_DurableTranscriptOnlyGrows ==
  [][\A s \in SessionIds :
       db[s].exists => IsPrefix(db[s].content, db'[s].content)]_vars

\* C20: no step lowers the durable durationMs of a session.
C20_DurableDurationNeverDecreases ==
  [][\A s \in SessionIds :
       db[s].exists => db'[s].durationMs >= db[s].durationMs]_vars

\* C21: the vocabulary prompt of a session is the terms (canonical form if
\* there is one, else phrase) of the first n entries of its priority-ordered
\* dictionary joined by ", ", for the n at which the next entry would take
\* the prompt past MAX_PROMPT_LENGTH characters (or the dictionary ends), and
\* is at most MAX_PROMPT_LENGTH characters long.
C21_PromptIsLongestFittingPrefix ==
  \A s \in SessionIds :
    (db[s].exists /\ liveSessions[s] # 0)
    => LET dictionary == db[s].dictionarySnapshot
           prompt == ctxs[liveSessions[s]].prompt
           \* The terms of the first n entries of the dictionary, in its order.
           FirstTerms(n) == [i \in 1..n |-> TermOf(dictionary[i])]
       IN /\ Len(prompt) <= MAX_PROMPT_LENGTH
          /\ \E n \in 0..Len(dictionary) :
               /\ prompt = JoinTerms(FirstTerms(n))
               /\ n < Len(dictionary)
                  => Len(JoinTerms(FirstTerms(n + 1))) > MAX_PROMPT_LENGTH

\* A session was started with a dictionary whose second entry does not fit
\* while its third would: the prompt is the first term alone.
C21_Witness ==
  \E s \in SessionIds :
    /\ db[s].exists /\ liveSessions[s] # 0
    /\ LET dictionary == db[s].dictionarySnapshot
           prompt == ctxs[liveSessions[s]].prompt
       IN /\ Len(dictionary) = 3
          /\ prompt = TermOf(dictionary[1])
          /\ Len(prompt) + 2 + Len(TermOf(dictionary[2])) > MAX_PROMPT_LENGTH
          /\ Len(prompt) + 2 + Len(TermOf(dictionary[3])) <= MAX_PROMPT_LENGTH

\* C22: a backend answer in which a fragment or a word repeats as in (a) or
\* (b) is flagged by the detector, so that its flush ends as a hallucination,
\* and the paragraph of distinct sentences is not flagged: it is appended.
C22_DetectorFlagsRepetition ==
  \A i \in 1..Len(flushLog) :
    LET text == flushLog[i].text
        \* The sentence fragments of the text as the specification words
        \* them: the text is lower-cased and split on terminal punctuation,
        \* the fragments are trimmed.
        phrases == SplitPhrases(ToLowerCase(text), 1, <<>>)
        fragments == [k \in 1..Len(phrases) |-> Trim(phrases[k])]
        words == SplitWords(ToLowerCase(text), 1, <<>>)
        \* (a) some fragment longer than MIN_PHRASE_LENGTH characters occurs
        \* PHRASE_REPEATS or more times.
        RepeatsFragment ==
          \E k \in 1..Len(fragments) :
            /\ Len(fragments[k]) > MIN_PHRASE_LENGTH
            /\ Cardinality({j \in 1..Len(fragments) : fragments[j] = fragments[k]})
                 >= PHRASE_REPEATS
        \* (b) some word longer than MIN_WORD_LENGTH characters occurs
        \* WORD_REPEATS or more times in a row.
        RepeatsWord ==
          \E k \in 1..(Len(words) - WORD_REPEATS + 1) :
            /\ Len(words[k]) > MIN_WORD_LENGTH
            /\ \A j \in k..(k + WORD_REPEATS - 1) : words[j] = words[k]
    IN
    flushLog[i].text # <<>>
    => /\ (RepeatsFragment \/ RepeatsWord)
          => flushLog[i].outcome = "hallucination"
       /\ flushLog[i].text = TextParagraph => flushLog[i].outcome = "text"

\* C23: an ingest by the owner that is called after a finalize of the
\* session has returned ok throws the error of an already finalized session
\* (BadRequest), and changes neither the contexts nor the row.
C23_IngestAfterFinalizeIsRejected ==
  [][\A o \in 1..Len(ops') :
       ( /\ Acts(o) /\ ops'[o].kind = "ingest"
         /\ ops'[o].user = Owner /\ ops'[o].afterCompleted )
       => /\ ops'[o].pc = "done" => ops'[o].result = "BadRequest"
          /\ ctxs' = ctxs /\ db' = db]_vars

\* C24: a flush calls the backend at most 1 + maxRetries times; every error
\* that is followed by a retry is a rate-limit error, and the retry is made
\* when a wait has elapsed that is twice the wait before the previous retry;
\* an error that is not a rate limit ends the flush at once.
C24_RetryOnlyOnRateLimit ==
  [][LET \* The backend calls of a flush, given the errors it has met: one per
        \* error, and one more if the flush was answered or its call is in
        \* flight.
        BackendCalls(errors, more) == Len(errors) + (IF more THEN 1 ELSE 0)
        \* The errors and waits of one flush: at most maxRetries waits, one
        \* after each error that is followed by a retry, each such error a rate
        \* limit and each wait twice the wait before it.
        RetryPolicy(errors, waits, retried) ==
          /\ Len(waits) <= maxRetries
          /\ Len(waits) = Len(errors) - (IF retried THEN 0 ELSE 1)
          /\ \A k \in 1..Len(waits) : errors[k]
          /\ \A k \in 1..Len(waits) : waits[k] > 0
          /\ \A k \in 2..Len(waits) : waits[k] = 2 * waits[k - 1]
     IN
     /\ \A c \in 1..Len(proc') :
          proc'[c].active
          => /\ BackendCalls(proc'[c].errors, proc'[c].phase = "call") <= 1 + maxRetries
             /\ RetryPolicy(proc'[c].errors, proc'[c].waits, TRUE)
     /\ \A i \in 1..Len(flushLog') :
          /\ BackendCalls(flushLog'[i].errors, flushLog'[i].outcome \in Answered)
               <= 1 + maxRetries
          /\ RetryPolicy(flushLog'[i].errors, flushLog'[i].waits,
                         flushLog'[i].outcome # "failed")
     /\ \A c \in 1..Len(proc) :
          /\ ( /\ proc[c].active /\ proc[c].phase = "backoff"
               /\ c <= Len(proc') /\ proc'[c].phase = "call" )
             => proc[c].waitLeft = 0
          /\ ( /\ proc[c].active /\ proc[c].phase = "call"
               /\ Len(flushLog') = Len(flushLog) + 1
               /\ flushLog'[Len(flushLog')].ctx = c
               /\ flushLog'[Len(flushLog')].outcome = "failed" )
             => LET errors == flushLog'[Len(flushLog')].errors IN
                \/ ~errors[Len(errors)]
                \/ Len(errors) = 1 + maxRetries]_vars

\* A flush was answered at its third backend call, after two rate-limit
\* errors and waits of 2 and 4 seconds.
C24_Witness ==
  \E i \in 1..Len(flushLog) :
    /\ flushLog[i].outcome = "text"
    /\ flushLog[i].errors = <<TRUE, TRUE>>
    /\ flushLog[i].waits = <<2000, 4000>>

\* The step pushes a chunk to context c.
PushesChunk(c) ==
  /\ Len(acceptLog') = Len(acceptLog) + 1
  /\ acceptLog'[Len(acceptLog')].ctx = c

\* The snapshot of the flush of context c that the step begins.
SnapshotTaken(c) ==
  IF proc'[c].active THEN proc'[c].chunksToProcess
                     ELSE flushLog'[Len(flushLog')].chunks

\* The flush of context c that the step begins ends at the minimum-audio
\* guard.
StoppedAsTooShort(c) ==
  \E i \in (Len(flushLog) + 1)..Len(flushLog') :
    flushLog'[i].ctx = c /\ flushLog'[i].outcome = "tooShort"

\* C25: a flush is stopped by the minimum-audio guard exactly when its
\* snapshot is shorter than half a second of audio, if the chunk pushed in
\* the step that begins the flush resumed speech (the context was silent and
\* the chunk is above the resume threshold), and exactly when it is shorter
\* than MIN_AUDIO_DURATION_SECONDS otherwise.
C25_RelaxedMinimumOnResume ==
  [][\A c \in 1..Len(ctxs) :
       (c <= Len(ctxs') /\ FlushBegins(c))
       => LET resumed == /\ PushesChunk(c)
                         /\ ctxs[c].wasSilent
                         /\ RmsAbove(<<acceptLog'[Len(acceptLog')].chunk>>, 3)
              minimum == IF resumed THEN BYTES_PER_SECOND \div 2
                                    ELSE MIN_AUDIO_DURATION_SECONDS * BYTES_PER_SECOND
          IN StoppedAsTooShort(c) <=> TotalAudioBytes(SnapshotTaken(c)) < minimum]_vars

\* C26: a flush whose snapshot is shorter than the minimum its guard applies
\* (half a second if the context is silent, MIN_AUDIO_DURATION_SECONDS
\* otherwise) ends in the step it began in without a backend call; the
\* pending chunks are then the chunks that were pending before, followed by
\* the chunk of this step if it pushed one; the accumulated transcript and
\* the time since the last flush are as before, no update of the transcript
\* is issued and the context is free.
C26_TooShortSnapshotIsPutBack ==
  [][\A c \in 1..Len(ctxs) :
       ( /\ c <= Len(ctxs') /\ FlushBegins(c)
         /\ TotalAudioBytes(SnapshotTaken(c))
              < (IF ctxs'[c].wasSilent THEN BYTES_PER_SECOND \div 2
                                       ELSE MIN_AUDIO_DURATION_SECONDS * BYTES_PER_SECOND) )
       => /\ StoppedAsTooShort(c)
          /\ ~proc'[c].active /\ ~ctxs'[c].isProcessing
          /\ ctxs'[c].audioChunks
               = ctxs[c].audioChunks
                 \o (IF PushesChunk(c) THEN <<acceptLog'[Len(acceptLog')].chunk>>
                                       ELSE <<>>)
          /\ ctxs'[c].audioChunks = flushLog'[Len(flushLog')].chunks
          /\ ctxs'[c].accumulatedTranscript = ctxs[c].accumulatedTranscript
          /\ ctxs'[c].sinceLastTranscription = ctxs[c].sinceLastTranscription
          /\ \A w \in 1..Len(writes') :
               w > Len(writes) => writes'[w].kind # "content"]_vars

\* A snapshot of one chunk was put back as too short, and the next flush of
\* the context sent that chunk and a newer one, in this order, to the
\* backend, which answered with text.
C26_Witness ==
  \E i, j \in 1..Len(flushLog) :
    /\ i < j /\ flushLog[i].ctx = flushLog[j].ctx
    /\ flushLog[i].outcome = "tooShort" /\ Len(flushLog[i].chunks) = 1
    /\ flushLog[j].outcome = "text" /\ Len(flushLog[j].chunks) = 2
    /\ flushLog[j].chunks[1] = flushLog[i].chunks[1]
    /\ flushLog[j].chunks[2].id > flushLog[i].chunks[1].id

\* C27: a flush that appends a segment leaves the accumulated transcript
\* equal to the segment, if the transcript was empty; to the transcript
\* followed directly by the segment, if the transcript ended in terminal
\* punctuation; and to the transcript, one space and the segment otherwise.
C27_SmartSpacing ==
  \A i \in 1..Len(flushLog) :
    flushLog[i].outcome = "text"
    => flushLog[i].transcriptAfter
         = SmartAppend(flushLog[i].transcriptBefore, flushLog[i].text)

\* C28: isProcessing of a context is set exactly while a flush of it is
\* running; in the step that ends a flush, with whatever outcome, it is
\* clear; and an accepted ingest that finds no flush running and the interval
\* passed begins a flush.
C28_IsProcessingReleased ==
  [][/\ \A c \in 1..Len(ctxs') : ctxs'[c].isProcessing <=> proc'[c].active
     /\ \A i \in (Len(flushLog) + 1)..Len(flushLog') :
          LET c == flushLog'[i].ctx IN
          c <= Len(ctxs') /\ ~ctxs'[c].isProcessing
     /\ \A s \in SessionIds : \A c \in 1..Len(ctxs) :
          ( /\ AcceptedIngest(s, c) /\ ~proc[c].active
            /\ ctxs[c].sinceLastTranscription >= TRANSCRIPTION_INTERVAL_MS )
          => FlushBegins(c)]_vars

\* After a flush of a context has failed at the backend, an ingest has
\* begun the next flush of the context.
C28_Witness ==
  \E i \in 1..Len(flushLog) :
    LET c == flushLog[i].ctx IN
    /\ flushLog[i].outcome = "failed"
    /\ c <= Len(proc) /\ proc[c].active /\ ctxs[c].isProcessing
    /\ proc[c].acceptedAtStart > flushLog[i].acceptedAtStart
    /\ ~ctxs[c].finalized

\* C29: the rejection of a background update makes no call return or throw
\* and changes no row; the update leaves pendingDbUpdates of its context,
\* whose accumulated transcript stays as it is, and whose pending chunks and
\* flush stay as they are unless a finalize that was waiting for the update
\* goes on with them; such a finalize goes on to its flush or to its final
\* update.  The final update of a finalize carries the accumulated transcript
\* of the context, and when it has landed the finalize returns ok with the
\* row COMPLETED and holding that transcript.
C29_BackgroundWriteFailureIsSwallowed ==
  [][/\ \A w \in 1..Len(writes) :
          ( /\ IsBackground(writes[w])
            /\ writes[w].state = "inflight" /\ writes'[w].state = "failed" )
          => /\ db' = db
             /\ \A o \in 1..Len(ops) : ops'[o].result = ops[o].result
             /\ LET c == writes[w].ctx IN
                c # 0
                => /\ w \notin ctxs'[c].pendingDbUpdates
                   /\ ctxs'[c].accumulatedTranscript = ctxs[c].accumulatedTranscript
                   /\ ~(\E o \in 1..Len(ops) :
                          ops[o].pc = "wait_updates" /\ ops[o].ctx = c)
                      => /\ ctxs'[c].audioChunks = ctxs[c].audioChunks
                         /\ proc'[c] = proc[c]
                   /\ \A o \in 1..Len(ops) :
                        ( /\ ops[o].pc = "wait_updates" /\ ops[o].ctx = c
                          /\ \A v \in ops[o].awaiting : writes'[v].state # "inflight" )
                        => ops'[o].pc \in {"wait_flush", "wait_final"}
     /\ \A o \in 1..Len(ops) :
          /\ (ops[o].write = 0 /\ ops'[o].pc = "wait_final")
             => writes'[ops'[o].write].content
                  = ctxs'[ops'[o].ctx].accumulatedTranscript
          /\ FinalizeCompletes(o)
             => /\ db'[ops[o].sid].status = STATUS_COMPLETED
                /\ db'[ops[o].sid].content = writes[ops[o].write].content]_vars

\* A finalize has returned ok and the row holds the transcribed text,
\* although the background update that carried this text was rejected.
C29_Witness ==
  \E o \in 1..Len(ops) :
    /\ ops[o].pc = "done" /\ ops[o].result = "ok" /\ ops[o].fin = "completed"
    /\ db[ops[o].sid].status = STATUS_COMPLETED
    /\ db[ops[o].sid].content # <<>>
    /\ \E w \in 1..Len(writes) :
         /\ writes[w].kind = "content" /\ writes[w].state = "failed"
         /\ writes[w].sid = ops[o].sid
         /\ writes[w].content = db[ops[o].sid].content

\* C30: every session in the registry has the durable status STREAMING, and
\* a session of which a finalize has returned ok, or a cancel by its owner
\* has returned, is not in the registry.
C30_RegistryLifecycle ==
  \A s \in SessionIds :
    /\ liveSessions[s] # 0 => db[s].status = STATUS_STREAMING
    /\ (FinalizeReturnedOk(Machine, s) \/ CancelReturned(Machine, s))
       => liveSessions[s] = 0

\* C31: every flush of a session that builds a prompt takes its vocabulary
\* text from the vocabulary prompt of the dictionary as it was at session
\* start, and no step changes the dictionarySnapshot stored with a session,
\* whatever is done to the dictionary after the start.
C31_VocabularyFixedAtStart ==
  [][/\ \A s \in SessionIds :
          db[s].exists => db'[s].dictionarySnapshot = db[s].dictionarySnapshot
     /\ \A c \in 1..Len(proc') :
          proc'[c].active
          => proc'[c].dictTerms
               = DictTerms(proc'[c].recentContext,
                           whisperPrompt(db'[ctxs'[c].transcriptionId].dictionarySnapshot))]_vars

\* C32: the context prompt of a flush is at most 224 characters long and is
\* the last characters of the transcript, at most 180 of them, followed by
\* a beginning of the vocabulary prompt, with ". " between the two when both
\* are there.
C32_ContextPromptWithinBudget ==
  \A c \in 1..Len(proc) :
    proc[c].active
    => LET prompt == proc[c].contextPrompt
           tail == proc[c].recentContext
           terms == proc[c].dictTerms
           transcript == proc[c].transcriptAtStart
       IN /\ Len(prompt) <= 224
          /\ Len(tail) <= 180
          /\ Len(tail) <= Len(transcript)
          /\ tail = SubSeq(transcript, Len(transcript) - Len(tail) + 1, Len(transcript))
          /\ IsPrefix(terms, ctxs[c].prompt)
          /\ prompt = IF terms = <<>> THEN tail
                      ELSE IF tail = <<>> THEN terms
                      ELSE tail \o <<".", " ">> \o terms

\* A flush whose prompt holds 180 characters of a longer transcript and the
\* 42 characters of vocabulary that fit after them.
C32_Witness ==
  \E c \in 1..Len(proc) :
    /\ proc[c].active
    /\ Len(proc[c].transcriptAtStart) > 180
    /\ Len(proc[c].recentContext) = 180
    /\ Len(proc[c].dictTerms) = 42
    /\ Len(ctxs[c].prompt) > 42
    /\ Len(proc[c].contextPrompt) = 224

\* C33: when the detector flags the last 180 characters of the transcript,
\* which are the tail a flush would use as context, the prompt of the flush
\* holds no transcript text.
C33_FlaggedTailIsNotContext ==
  \A c \in 1..Len(proc) :
    (proc[c].active
     /\ detectHallucination(LastChars(proc[c].transcriptAtStart, 180)))
    => proc[c].recentContext = <<>>


\* C34: a step that is an event of session A (a call of ingest, finalize or
\* cancel on A arrives, the read of a recovery of A returns, the backend
\* answers or fails a flush of A, a backoff of A ends, or an update of A
\* settles) leaves the row, the registration, the pending chunks, the flush
\* flag and the transcript of every other session B unchanged, also when A
\* and B belong to the same user.
C34_SessionsAreIsolated ==
  [][LET EventOf(s) ==
           \/ Len(ops') > Len(ops) /\ ops'[Len(ops')].sid = s
           \/ \E o \in 1..Len(ops) :
                ops[o].sid = s /\ ops[o].pc = "restore" /\ ops'[o].pc # "restore"
           \/ \E c \in 1..Len(proc) :
                /\ ctxs[c].transcriptionId = s /\ proc[c].active
                /\ \/ proc[c].phase = "call"
                      /\ (~proc'[c].active \/ proc'[c].phase # "call"
                          \/ proc'[c].acceptedAtStart # proc[c].acceptedAtStart
                          \/ proc'[c].errors # proc[c].errors)
                   \/ proc[c].phase = "backoff" /\ proc'[c].phase = "call"
           \/ \E w \in 1..Len(writes) :
                /\ writes[w].sid = s /\ writes[w].state = "inflight"
                /\ writes'[w].state # "inflight"
         Restarts == restarts' # restarts
         LeavesSession(s) ==
           /\ db'[s].status = db[s].status
           /\ db'[s].content = db[s].content
           /\ db'[s].durationMs = db[s].durationMs
           /\ liveSessions'[s] = liveSessions[s]
           /\ \A c \in 1..Len(ctxs) :
                ctxs[c].transcriptionId = s
                => /\ ctxs'[c].audioChunks = ctxs[c].audioChunks
                   /\ ctxs'[c].isProcessing = ctxs[c].isProcessing
                   /\ ctxs'[c].accumulatedTranscript = ctxs[c].accumulatedTranscript
     IN \A a \in SessionIds, b \in SessionIds :
          (a # b /\ ~Restarts /\ EventOf(a)) => LeavesSession(b)]_vars

\* Both sessions belong to the same user, one has been finalized and the
\* other cancelled, each having taken a chunk.
C34_Witness ==
  \E a \in SessionIds, b \in SessionIds :
    /\ a # b /\ db[a].exists /\ db[b].exists /\ db[a].userId = db[b].userId
    /\ db[a].status = STATUS_COMPLETED /\ db[b].status = STATUS_CANCELLED
    /\ \E i \in 1..Len(acceptLog), j \in 1..Len(acceptLog) :
         acceptLog[i].sid = a /\ acceptLog[j].sid = b

\* C35: in every step in which a call of finalize returns ok, the row of its
\* session has the status COMPLETED once the step is made.
C35_FinalizeOkMeansCompleted ==
  [][\A o \in 1..Len(ops') :
       (/\ ops'[o].kind = "finalize"
        /\ ops'[o].pc = "done" /\ ops'[o].result = "ok"
        /\ (o > Len(ops) \/ ops[o].pc # "done"))
       => db'[ops'[o].sid].status = STATUS_COMPLETED]_vars

\* C36: when two ingest calls of a session have both arrived while it was
\* absent from the registry and its row was STREAMING, and both have returned
\* ok, with no finalize or cancel of the session and no restart since, then
\* one context is registered for the session and the chunk of each of the
\* two calls is among the pending chunks of that context, in the snapshot of
\* its running flush or in the snapshot of one of its ended flushes.
C36_ConcurrentRecoveriesShareOneBuffer ==
  \A o1 \in 1..Len(ops), o2 \in 1..Len(ops) :
    (/\ o1 # o2 /\ ops[o1].sid = ops[o2].sid
     /\ \A o \in {o1, o2} :
          /\ ops[o].kind = "ingest" /\ ops[o].absentAtCall
          /\ ops[o].statusAtCall = STATUS_STREAMING
          /\ ops[o].pc = "done" /\ ops[o].result = "ok"
     /\ \A o \in 1..Len(ops) : ops[o].sid = ops[o1].sid => ops[o].kind = "ingest"
     /\ \A i \in 1..Len(acceptLog) :
          acceptLog[i].by \in {o1, o2} => acceptLog[i].chunk.id \notin lostChunks)
    => LET c == liveSessions[ops[o1].sid] IN
       /\ c # 0
       /\ \A o \in {o1, o2} : \E i \in 1..Len(acceptLog) :
            /\ acceptLog[i].by = o
            /\ \/ acceptLog[i].chunk.id \in ChunkIds(ctxs[c].audioChunks)
               \/ acceptLog[i].chunk.id \in ChunkIds(proc[c].chunksToProcess)
               \/ \E f \in 1..Len(flushLog) :
                    /\ flushLog[f].ctx = c
                    /\ acceptLog[i].chunk.id \in ChunkIds(flushLog[f].chunks)

\* C37: under the scheduling of LiveSpec, every call of finalize that has
\* been made eventually returns or throws, and every flush that has started
\* eventually ends: no call stays at its wait for pendingDbUpdates, and no
\* context keeps isProcessing set for ever.
C37_FinalizeAndFlushTerminate ==
  /\ \A o \in 1..(MaxIngest + MaxFinalize) :
       (o <= Len(ops) /\ ops[o].kind = "finalize")
       ~> (o <= Len(ops) /\ ops[o].pc = "done")
  /\ \A c \in 1..MaxIngest :
       (c <= Len(proc) /\ (proc[c].active \/ ctxs[c].isProcessing))
       ~> (c > Len(proc) \/ (~proc[c].active /\ ~ctxs[c].isProcessing))

\* A finalize has waited for the background updates of its context and for
\* the flush it started, and has returned.
C37_Witness ==
  \E o \in 1..Len(ops), f \in 1..Len(flushLog), w \in 1..Len(writes) :
    /\ ops[o].kind = "finalize" /\ ops[o].pc = "done" /\ ops[o].result = "ok"
    /\ writes[w].kind = "duration" /\ writes[w].by < o /\ writes[w].state # "inflight"
    /\ flushLog[f].retryCount > 0
    /\ flushLog[f].outcome = "text"

\* C38: for every call of stopRecording that has sent the complete request,
\* when the request was sent the recorder of the session had stopped and no
\* upload was waiting or in progress; and every chunk of the session that was
\* delivered to onChunk before the request was sent, the flushed rest of the
\* worklet buffer among them, had been uploaded when the request was sent.
C38_CompleteAfterUploads ==
  \A k \in 1..Len(client.calls) :
    LET call == client.calls[k] IN
    (call.kind = "stop" /\ call.pc \in {"complete", "transcript", "json", "done"})
    => /\ call.stoppedAtComplete
       /\ call.pendingAtComplete = {}
       /\ \A i \in 1..Len(client.delivered) :
            (client.delivered[i].sid = call.sid /\ ~client.delivered[i].completeSent)
            => client.delivered[i].id \in call.uploadedAtComplete

\* C39: once a stop() of a recorder has resolved, start() not being called
\* again, the state of the recorder is idle, the microphone is not held, the
\* audio context is released and does not run, and no chunk of the recorder
\* is delivered to onChunk.
C39_StopReleasesRecorder ==
  \A r \in 1..Len(client.recorders) :
    client.recorders[r].stopped
    => /\ client.recorders[r].state = "idle"
       /\ ~client.recorders[r].micHeld /\ ~client.recorders[r].mediaStream
       /\ client.recorders[r].contextState # "running"
       /\ ~client.recorders[r].audioContext
       /\ \A i \in 1..Len(client.delivered) :
            client.delivered[i].rec = r => ~client.delivered[i].stopped

====
